---------------------------- MODULE Spec2Model ----------------------------
(***************************************************************************)
(* PotStack runtime plane: Dynamic Router (internal/router), Sandbox       *)
(* Manager / Keeper (internal/keeper) and Loader key pinning               *)
(* (internal/loader).                                                      *)
(*                                                                         *)
(* Strings are sequences of one-character strings, so that prefix tests,   *)
(* fmt.Sprintf concatenation and strings.TrimPrefix are computed the way   *)
(* the Go code computes them.                                              *)
(***************************************************************************)
EXTENDS Naturals, Integers, Sequences, FiniteSets, TLC

VARIABLES
    pathRoutes,       \* Router.pathRoutes: prefix -> handler
    sandboxRoutes,    \* Router.sandboxRoutes: "org/name" -> <<"PATH:"+prefix, ...>>
    rw,               \* holder of the writer side of Router.mu and its progress
    inflight,         \* number of ServeHTTP calls holding the reader side of Router.mu
    lastDispatch,     \* what the last ServeHTTP call did
    potYml,           \* pot.yml at HEAD of each bare repository
    runYml,           \* <repo>.git/data/faaspot/run.yml of each pot
    runningInstances, \* SandboxManager.runningInstances: "org/name" -> child
    children,         \* every OS process spawned so far, in spawn order
    mu,               \* holder of SandboxManager.mu between steps, 0 when free
    tasks,            \* position of every goroutine that runs Keeper code
    firstPass,        \* what a first reconcile pass did and left, for a second one
    users,            \* User Store: owner -> user row (pinned key in publicKey)
    pushLog,          \* pots handed to pushToRepo, over all deployments
    lastDeploy,       \* the last deployPPK call: package, result, store before it
    health,           \* whether the internal port answers GET /health with 200
    boot,             \* position and locals of the goroutine of loader.StartAsync
    certDisk,         \* cert.pem, key.pem and the ModTime of cert.pem
    mcert,            \* Manager.cert: the pair handed to TLS handshakes, 0 for nil
    certTasks,        \* position of every goroutine that runs Manager code
    certLog,          \* archives made and certificates requested, in order
    host,             \* main: its position, the root context, listeners, database
    xtr,              \* one extractZip call: entry index, files written, error
    reply,            \* the last request answered by a handler, and its answer
    sbx               \* a sandbox: the request proxied to it, its own refresh call

routerVars == <<pathRoutes, sandboxRoutes, rw, inflight, lastDispatch>>
keeperVars == <<potYml, runYml, runningInstances, children, mu, tasks, firstPass>>
loaderVars == <<users, pushLog, lastDeploy, health, boot>>
hostVars == <<certDisk, mcert, certTasks, certLog, host, xtr, reply, sbx>>
vars == <<pathRoutes, sandboxRoutes, rw, inflight, lastDispatch,
          potYml, runYml, runningInstances, children, mu, tasks, firstPass,
          users, pushLog, lastDeploy, health, boot,
          certDisk, mcert, certTasks, certLog, host, xtr, reply, sbx>>

None == "none"

-----------------------------------------------------------------------------
(* Strings *)

\* strings.HasPrefix
HasPrefix(s, p) == Len(p) <= Len(s) /\ SubSeq(s, 1, Len(p)) = p

\* strings.TrimPrefix
TrimPrefix(s, p) == IF HasPrefix(s, p) THEN SubSeq(s, Len(p) + 1, Len(s)) ELSE s

Slash == <<"/">>

\* the four route families of registerThreeRoutesInternal
PotKind   == <<"/", "p", "o", "t">>
ApiKind   == <<"/", "a", "p", "i">>
WebKind   == <<"/", "w", "e", "b">>
AdminKind == <<"/", "a", "d", "m", "i", "n">>
Kinds     == <<PotKind, ApiKind, WebKind, AdminKind>>

\* the installed pots; b is a string prefix of bb
OrgA   == <<"a">>
NameB  == <<"b">>
NameBB == <<"b", "b">>
PotB   == [org |-> OrgA, name |-> NameB]
PotBB  == [org |-> OrgA, name |-> NameBB]
Pots   == {PotB, PotBB}

\* fmt.Sprintf("%s/%s", org, name)
Key(org, name) == org \o Slash \o name

\* fmt.Sprintf("/pot/%s/%s", org, name) and its three siblings
PrefixOf(kind, org, name) == kind \o Slash \o org \o Slash \o name

PathTag == <<"PATH:">>

FourPrefixes(org, name) == {PrefixOf(Kinds[i], org, name) : i \in 1..4}

-----------------------------------------------------------------------------
(* Dynamic Router: pure parts *)

Put(f, k, v) == [x \in DOMAIN f \cup {k} |-> IF x = k THEN v ELSE f[x]]
Del(f, k)    == [x \in DOMAIN f \ {k} |-> f[x]]
DelAll(f, S) == [x \in DOMAIN f \ S |-> f[x]]

\* resource.NewStaticHandler / httputil.NewSingleHostReverseProxy
NoTarget           == [type |-> "none", port |-> 0, root |-> <<>>]
StaticTarget(root) == [type |-> "static", port |-> 0, root |-> root]
ProxyTarget(port)  == [type |-> "proxy", port |-> port, root |-> <<>>]
NoHandler          == [wrap |-> "none", org |-> <<>>, name |-> <<>>, target |-> NoTarget]

\* the handler stored under the i-th prefix: stripPrefixHandler for /pot,
\* stripOrgNameHandler for /api, /web and /admin
WrappedHandler(i, org, name, target) ==
    [wrap |-> IF i = 1 THEN "stripPrefix" ELSE "stripOrgName",
     org |-> org, name |-> name, target |-> target]

\* a removal that forgets all but the first recorded key
removeRoutesInternalBuggy(pr, sr, org, name) ==
    LET key == Key(org, name) IN
    IF key \in DOMAIN sr
    THEN [pr |-> Del(pr, TrimPrefix(sr[key][1], PathTag)), sr |-> Del(sr, key)]
    ELSE [pr |-> pr, sr |-> sr]

\* removeRoutesInternal: delete every PATH: key recorded for the pot, then
\* the record itself
removeRoutesInternal(pr, sr, org, name) ==
    LET key == Key(org, name) IN
    IF key \in DOMAIN sr
    THEN [pr |-> DelAll(pr, {TrimPrefix(sr[key][i], PathTag) :
                             i \in {j \in 1..Len(sr[key]) : HasPrefix(sr[key][j], PathTag)}}),
          sr |-> Del(sr, key)]
    ELSE [pr |-> pr, sr |-> sr]

\* one of the four assignments r.pathRoutes[prefix] = wrapped handler
InstallRoute(pr, i, org, name, target) ==
    Put(pr, PrefixOf(Kinds[i], org, name), WrappedHandler(i, org, name, target))

\* registeredKeys after all four appends
RegisteredKeys(org, name) == [i \in 1..4 |-> PathTag \o PrefixOf(Kinds[i], org, name)]

\* registerThreeRoutesInternal as a whole: the map after the four assignments
registerThreeRoutesInternal(pr, sr, org, name, target) ==
    [pr |-> [x \in DOMAIN pr \cup FourPrefixes(org, name) |->
                IF x \in FourPrefixes(org, name)
                THEN WrappedHandler(CHOOSE i \in 1..4 : x = PrefixOf(Kinds[i], org, name),
                                    org, name, target)
                ELSE pr[x]],
     sr |-> Put(sr, Key(org, name), RegisteredKeys(org, name))]

\* strings.Replace(s, old, "", 1): s without the first occurrence of old
RECURSIVE ReplaceFirst(_, _)
ReplaceFirst(s, old) ==
    IF Len(s) < Len(old) THEN s
    ELSE IF HasPrefix(s, old) THEN TrimPrefix(s, old)
    ELSE <<Head(s)>> \o ReplaceFirst(Tail(s), old)

\* stripPrefixHandler: the req.URL.Path the wrapped handler is given
stripPrefixHandler(prefix, path) ==
    LET p == TrimPrefix(path, prefix)
    IN IF HasPrefix(p, Slash) THEN p ELSE Slash \o p

\* stripOrgNameHandler: the req.URL.Path the wrapped handler is given
stripOrgNameHandler(org, name, path) ==
    LET p == ReplaceFirst(path, Slash \o org \o Slash \o name)
    IN IF HasPrefix(p, Slash) THEN p ELSE Slash \o p

\* the elements of a path: strings.Split(s, "/") without the empty strings
RECURSIVE SplitPath(_)
SplitPath(s) ==
    IF s = <<>> THEN <<>>
    ELSE IF Head(s) = "/" THEN SplitPath(Tail(s))
    ELSE LET cut == {i \in 1..Len(s) : s[i] = "/"}
             n == IF cut = {} THEN Len(s) + 1
                  ELSE CHOOSE i \in cut : \A j \in cut : i <= j
         IN <<SubSeq(s, 1, n - 1)>> \o SplitPath(SubSeq(s, n, Len(s)))

DotDot == <<".", ".">>

\* filepath.Clean, element by element: "." is dropped, ".." removes the
\* element before it, is dropped at the root and stays at the head of a
\* relative path
RECURSIVE CleanElems(_, _, _)
CleanElems(done, rest, rooted) ==
    IF rest = <<>> THEN done
    ELSE IF Head(rest) = <<".">> THEN CleanElems(done, Tail(rest), rooted)
    ELSE IF Head(rest) = DotDot
    THEN IF done # <<>> /\ done[Len(done)] # DotDot
         THEN CleanElems(SubSeq(done, 1, Len(done) - 1), Tail(rest), rooted)
         ELSE IF rooted THEN CleanElems(done, Tail(rest), rooted)
         ELSE CleanElems(Append(done, DotDot), Tail(rest), rooted)
    ELSE CleanElems(Append(done, Head(rest)), Tail(rest), rooted)

\* strings.Join(elems, "/")
RECURSIVE JoinElems(_)
JoinElems(es) ==
    IF es = <<>> THEN <<>>
    ELSE IF Len(es) = 1 THEN es[1]
    ELSE es[1] \o Slash \o JoinElems(Tail(es))

\* filepath.Clean
Clean(s) ==
    LET rooted == HasPrefix(s, Slash)
        es == CleanElems(<<>>, SplitPath(s), rooted)
    IN IF rooted THEN Slash \o JoinElems(es)
       ELSE IF es = <<>> THEN <<".">> ELSE JoinElems(es)

\* filepath.Join(a, b): empty elements are ignored, the result is cleaned
JoinPath(a, b) ==
    IF a = <<>> /\ b = <<>> THEN <<>>
    ELSE IF a = <<>> THEN Clean(b)
    ELSE IF b = <<>> THEN Clean(a)
    ELSE Clean(a \o Slash \o b)

\* NewStaticHandler: the path looked up in the HEAD tree
NewStaticHandler(root, path) == JoinPath(root, TrimPrefix(path, Slash))

\* bestHandler.ServeHTTP for a static target: the blob path the request ends at
ServedBlob(res, path) ==
    NewStaticHandler(res.handler.target.root,
                     IF res.handler.wrap = "stripPrefix"
                     THEN stripPrefixHandler(res.prefix, path)
                     ELSE stripOrgNameHandler(res.handler.org, res.handler.name, path))

\* a dispatch that keeps the shortest registered prefix the path begins with
ServeHTTPShortest(pr, path) ==
    LET M == {p \in DOMAIN pr : HasPrefix(path, p)} IN
    IF M = {} THEN [status |-> 404, prefix |-> <<>>, handler |-> NoHandler]
    ELSE LET best == CHOOSE p \in M : \A q \in M : Len(p) <= Len(q)
         IN [status |-> 200, prefix |-> best, handler |-> pr[best]]

\* ServeHTTP: longest registered prefix the path begins with, else 404
ServeHTTP(pr, path) ==
    LET M == {p \in DOMAIN pr : HasPrefix(path, p)} IN
    IF M = {} THEN [status |-> 404, prefix |-> <<>>, handler |-> NoHandler]
    ELSE LET best == CHOOSE p \in M : \A q \in M : Len(q) <= Len(p)
         IN [status |-> 200, prefix |-> best, handler |-> pr[best]]


-----------------------------------------------------------------------------
(* Loader: deployPPK and the User Store *)

OrgC == <<"c">>

\* the owner directories a package can hold, in os.ReadDir order
OwnerList == <<OrgA, OrgC>>
OwnerSet  == {OwnerList[i] : i \in 1..Len(OwnerList)}

\* header.PublicKey, as bytes
HeaderKeys == {<<10>>, <<160>>}

HexDigits == <<"0", "1", "2", "3", "4", "5", "6", "7",
               "8", "9", "a", "b", "c", "d", "e", "f">>

\* fmt.Sprintf("%x", header.PublicKey)
RECURSIVE Hex(_)
Hex(bytes) ==
    IF bytes = <<>> THEN <<>>
    ELSE <<HexDigits[(Head(bytes) \div 16) + 1], HexDigits[(Head(bytes) % 16) + 1]>>
         \o Hex(Tail(bytes))

\* user.PublicKey as the store can hold it: empty, pinned by an earlier
\* deployment, or written by hand in another spelling
StoredKeys == {<<>>} \cup {Hex(k) : k \in HeaderKeys} \cup {<<"0", "A">>}

\* a row of the user table; NoUser when GetUser answers ErrUserNotFound
NoUser  == [exists |-> FALSE, publicKey |-> <<>>]
NewUser == [exists |-> TRUE, publicKey |-> <<>>]

\* a .ppk file: valid when the header parses, the content reads, the
\* signature self-check passes and the zip extracts
Packages == [valid : BOOLEAN, key : HeaderKeys, owners : SUBSET OwnerSet]

\* what the environment lets fail during one deployment
NoFault == [at |-> "none", owner |-> <<>>]
Faults  == {NoFault} \cup [at : {"create", "setkey", "pull"}, owner : OwnerSet]

\* deployPPK, lines 289-330, one owner: GetUser or CreateUser, then TOFU or
\* the pinning check; wrote names the owner SetUserPublicKey was called for
pinOwnerOverwrite(us, o, key, fault) ==
    LET failsCreate == ~us[o].exists /\ fault = [at |-> "create", owner |-> o]
        us1 == IF ~us[o].exists /\ ~failsCreate THEN [us EXCEPT ![o] = NewUser] ELSE us
    IN IF failsCreate THEN [users |-> us, wrote |-> {}, err |-> "failed to create user"]
       ELSE [users |-> [us1 EXCEPT ![o].publicKey = Hex(key)], wrote |-> {o}, err |-> ""]

\* TOFU that trusts the key without storing it
pinOwnerNotStored(us, o, key, fault) ==
    LET failsCreate == ~us[o].exists /\ fault = [at |-> "create", owner |-> o]
        us1 == IF ~us[o].exists /\ ~failsCreate THEN [us EXCEPT ![o] = NewUser] ELSE us
        user == us1[o]
    IN IF failsCreate THEN [users |-> us, wrote |-> {}, err |-> "failed to create user"]
       ELSE IF user.publicKey = <<>> \/ user.publicKey = Hex(key)
       THEN [users |-> us1, wrote |-> {}, err |-> ""]
       ELSE [users |-> us1, wrote |-> {}, err |-> "public key mismatch"]

pinOwner(us, o, key, fault) ==
    LET failsCreate == ~us[o].exists /\ fault = [at |-> "create", owner |-> o]
        us1 == IF ~us[o].exists /\ ~failsCreate THEN [us EXCEPT ![o] = NewUser] ELSE us
        user == us1[o]
        headerPubKeyStr == Hex(key)
    IN IF failsCreate THEN [users |-> us, wrote |-> {}, err |-> "failed to create user"]
       ELSE IF user.publicKey = <<>>
       THEN IF fault = [at |-> "setkey", owner |-> o]
            THEN [users |-> us1, wrote |-> {o}, err |-> "failed to set public key"]
            ELSE [users |-> [us1 EXCEPT ![o].publicKey = headerPubKeyStr],
                  wrote |-> {o}, err |-> ""]
       ELSE IF user.publicKey # headerPubKeyStr
       THEN [users |-> us1, wrote |-> {}, err |-> "public key mismatch"]
       ELSE [users |-> us1, wrote |-> {}, err |-> ""]

\* deployPPK, lines 289-330: the first loop over ownerEntries, left at the
\* first error
RECURSIVE pinOwners(_, _, _, _)
pinOwners(us, entries, key, fault) ==
    IF entries = <<>> THEN [users |-> us, wrote |-> {}, err |-> ""]
    ELSE LET r == pinOwner(us, Head(entries), key, fault) IN
         IF r.err # "" THEN r
         ELSE LET rest == pinOwners(r.users, Tail(entries), key, fault)
              IN [users |-> rest.users, wrote |-> r.wrote \cup rest.wrote, err |-> rest.err]

\* deployPPK, lines 334-377: the second loop; every owner directory holds the
\* pot NameB; a failed docker pull returns, ensureUserAndRepo finds the user
\* of the first loop, pushToRepo is called and its error only logged
RECURSIVE deployOwners(_, _)
deployOwners(entries, fault) ==
    IF entries = <<>> THEN [pushed |-> {}, err |-> ""]
    ELSE IF fault = [at |-> "pull", owner |-> Head(entries)]
    THEN [pushed |-> {}, err |-> "failed to pull docker image"]
    ELSE LET rest == deployOwners(Tail(entries), fault)
         IN [pushed |-> {[org |-> Head(entries), name |-> NameB]} \cup rest.pushed,
             err |-> rest.err]

\* the owner directories of a package, as os.ReadDir lists them
OwnerEntries(pkg) == SelectSeq(OwnerList, LAMBDA o : o \in pkg.owners)

\* a deployment that goes on to the second loop whatever the first one found
deployPPKUnchecked(us, pkg, fault) ==
    IF ~pkg.valid
    THEN [users |-> us, wrote |-> {}, pushed |-> {}, err |-> "invalid ppk"]
    ELSE LET p == pinOwners(us, OwnerEntries(pkg), pkg.key, fault)
             d == deployOwners(OwnerEntries(pkg), fault)
         IN [users |-> p.users, wrote |-> p.wrote, pushed |-> d.pushed, err |-> d.err]

\* deployPPK: the store it leaves, the owners it pinned, the pots it handed
\* to pushToRepo and the error it returns ("" for nil)
deployPPK(us, pkg, fault) ==
    IF ~pkg.valid
    THEN [users |-> us, wrote |-> {}, pushed |-> {}, err |-> "invalid ppk"]
    ELSE LET p == pinOwners(us, OwnerEntries(pkg), pkg.key, fault) IN
         IF p.err # ""
         THEN [users |-> p.users, wrote |-> p.wrote, pushed |-> {}, err |-> p.err]
         ELSE LET d == deployOwners(OwnerEntries(pkg), fault)
              IN [users |-> p.users, wrote |-> p.wrote, pushed |-> d.pushed, err |-> d.err]

EmptyStore == [o \in OwnerSet |-> NoUser]

NoDeploy == [result |-> "none", pkg |-> [valid |-> FALSE, key |-> <<>>, owners |-> {}],
             before |-> EmptyStore, wrote |-> {}, pushed |-> {}, err |-> ""]

\* a header not yet parsed, a package not yet extracted
NoHeader == [contentLen |-> 0, publicKey |-> <<>>,
             signature |-> [key |-> <<>>, data |-> <<>>]]
NoPkg    == [valid |-> FALSE, key |-> <<>>, owners |-> {}]

\* the StartAsync goroutine before main has started it
BootOff == [pc |-> "off", i |-> 0, n |-> 0, idx |-> 0, hdr |-> NoHeader,
            buf |-> <<>>, pkg |-> NoPkg, dir |-> "none", warnings |-> 0,
            lastErr |-> "", answered |-> FALSE]

LoaderIdleInit ==
    /\ users = EmptyStore
    /\ pushLog = {}
    /\ lastDeploy = NoDeploy
    /\ health = FALSE
    /\ boot = BootOff

-----------------------------------------------------------------------------
(* Certificate Manager, host facade, archive extraction: before main starts *)

\* cert.pem absent
NoCertFile == [id |-> 0, life |-> "missing"]

\* the certs directory and https.yaml before Setup
NoCertDisk == [cert |-> NoCertFile, key |-> 0, mod |-> 0, challenge |-> "off"]

\* main before it reaches the select
HostOff == [pc |-> "off", ctx |-> "live", listening |-> {}, db |-> "closed",
            token |-> <<>>]

\* no extractZip call yet
XtrOff == [pc |-> "off", dest |-> <<>>, files |-> <<>>, i |-> 0,
           written |-> {}, err |-> ""]

\* no request answered yet
NoReply == [op |-> "none"]

\* no request is proxied to the sandbox and it calls nothing
SbxOff == [req |-> "none", refresh |-> "none"]

HostIdleInit ==
    /\ certDisk = NoCertDisk
    /\ mcert = 0
    /\ certTasks = [t \in {} |-> 0]
    /\ certLog = <<>>
    /\ host = HostOff
    /\ xtr = XtrOff
    /\ reply = NoReply
    /\ sbx = SbxOff

-----------------------------------------------------------------------------
(* Dynamic Router: state machine *)

MaxInflight == 1
MaxPort == 2

Ports == 1..MaxPort

RwIdle == [pc |-> "idle", op |-> None, org |-> <<>>, name |-> <<>>,
           target |-> NoTarget, step |-> 0]

EmptyMap == [x \in {} |-> None]

\* models.RunConfig as stored in run.yml; NoRunYml when the file is absent
RunConfigs == [target : {"running", "stopped"}, port : 0..MaxPort, pid : {0}]
NoRunYml   == [target |-> "absent", port |-> 0, pid |-> 0]

\* no reconcile pass has ended yet
NoPass == [n |-> 0, failed |-> {}, noRuntime |-> {}, after |-> <<>>]

\* request paths: /<kind>/<org>/<name>/x for every pot, and one foreign path
PathX == <<"/", "x">>
RequestOf(i, p) == PrefixOf(Kinds[i], p.org, p.name) \o PathX
ForeignPath == <<"/", "h">>

NoPot == [org |-> <<>>, name |-> <<>>]
NoDispatch == [path |-> <<>>, kind |-> 0, pot |-> NoPot, seen |-> {},
               res |-> [status |-> 0, prefix |-> <<>>, handler |-> NoHandler]]

RouterInit ==
    /\ pathRoutes = EmptyMap
    /\ sandboxRoutes = EmptyMap
    /\ rw = RwIdle
    /\ inflight = 0
    /\ lastDispatch = NoDispatch

\* r.mu.Lock() succeeds: no writer and no reader holds the lock
CanLock == rw.pc = "idle" /\ inflight = 0

\* RegisterStatic up to the creation of the handler (lock, removeRoutesInternal,
\* NewStaticHandler)
RegisterStaticBegin(p, root) ==
    /\ CanLock
    /\ LET r == removeRoutesInternal(pathRoutes, sandboxRoutes, p.org, p.name) IN
       /\ pathRoutes' = r.pr
       /\ sandboxRoutes' = r.sr
       /\ rw' = [pc |-> "install", op |-> "static", org |-> p.org, name |-> p.name,
                 target |-> StaticTarget(root), step |-> 0]
    /\ UNCHANGED <<inflight, lastDispatch>>

\* a RegisterExe that proxies to port 0 when run.yml names no port
ExeTargetAnyPort(rc) ==
    IF rc = NoRunYml THEN [err |-> "run.yml not found", target |-> NoTarget]
    ELSE [err |-> "", target |-> ProxyTarget(rc.port)]

\* what RegisterExe makes of run.yml: the error returns of lines 99-111, or
\* the proxy target of line 114
ExeTarget(rc) ==
    IF rc = NoRunYml THEN [err |-> "run.yml not found", target |-> NoTarget]
    ELSE IF rc.port = 0 THEN [err |-> "no port assigned", target |-> NoTarget]
    ELSE [err |-> "", target |-> ProxyTarget(rc.port)]

\* RegisterExe up to the creation of the handler; on an error return the
\* deferred Unlock runs with the old routes already removed
RegisterExeBegin(p) ==
    /\ CanLock
    /\ LET r == removeRoutesInternal(pathRoutes, sandboxRoutes, p.org, p.name)
           t == ExeTarget(runYml[p]) IN
       /\ pathRoutes' = r.pr
       /\ sandboxRoutes' = r.sr
       /\ rw' = IF t.err # "" THEN RwIdle
                ELSE [pc |-> "install", op |-> "exe", org |-> p.org, name |-> p.name,
                      target |-> t.target, step |-> 0]
    /\ UNCHANGED <<inflight, lastDispatch>>

\* registerThreeRoutesInternal, one prefix at a time, writer lock held
RouterInstall ==
    /\ rw.pc = "install"
    /\ rw.step < 4
    /\ pathRoutes' = InstallRoute(pathRoutes, rw.step + 1, rw.org, rw.name, rw.target)
    /\ rw' = [rw EXCEPT !.step = @ + 1]
    /\ UNCHANGED <<sandboxRoutes, inflight, lastDispatch>>

\* r.sandboxRoutes[key] = registeredKeys, return nil, deferred Unlock
RouterFinish ==
    /\ rw.pc = "install"
    /\ rw.step = 4
    /\ sandboxRoutes' = Put(sandboxRoutes, Key(rw.org, rw.name), RegisteredKeys(rw.org, rw.name))
    /\ rw' = RwIdle
    /\ UNCHANGED <<pathRoutes, inflight, lastDispatch>>

\* RemoveRoutes
RemoveRoutes(p) ==
    /\ CanLock
    /\ LET r == removeRoutesInternal(pathRoutes, sandboxRoutes, p.org, p.name) IN
       /\ pathRoutes' = r.pr
       /\ sandboxRoutes' = r.sr
    /\ UNCHANGED <<rw, inflight, lastDispatch>>

\* ServeHTTP: RLock, pick the handler, hand the request to it
ServeBegin(path, i, p) ==
    /\ rw.pc = "idle"
    /\ inflight < MaxInflight
    /\ inflight' = inflight + 1
    /\ lastDispatch' = [path |-> path, kind |-> i, pot |-> p,
                        seen |-> DOMAIN pathRoutes,
                        res |-> ServeHTTP(pathRoutes, path)]
    /\ UNCHANGED <<pathRoutes, sandboxRoutes, rw>>

\* the handler returns, deferred RUnlock
ServeEnd ==
    /\ inflight > 0
    /\ inflight' = inflight - 1
    /\ UNCHANGED <<pathRoutes, sandboxRoutes, rw, lastDispatch>>

RouterOnly == UNCHANGED keeperVars /\ UNCHANGED loaderVars /\ UNCHANGED hostVars

RegisterStaticCall == (\E p \in Pots : RegisterStaticBegin(p, <<"w">>)) /\ RouterOnly
RegisterExeCall    == (\E p \in Pots : RegisterExeBegin(p)) /\ RouterOnly
RouterInstallStep  == RouterInstall /\ RouterOnly
RouterFinishStep   == RouterFinish /\ RouterOnly
RemoveRoutesCall   == (\E p \in Pots : RemoveRoutes(p)) /\ RouterOnly
ServeCall ==
    /\ \/ \E i \in 1..4, p \in Pots : ServeBegin(RequestOf(i, p), i, p)
       \/ ServeBegin(ForeignPath, 0, NoPot)
    /\ RouterOnly
ServeReturn == ServeEnd /\ RouterOnly

RouterNext ==
    \/ RegisterStaticCall
    \/ RegisterExeCall
    \/ RouterInstallStep
    \/ RouterFinishStep
    \/ RemoveRoutesCall
    \/ ServeCall
    \/ ServeReturn

KeeperIdleInit ==
    /\ potYml = [p \in Pots |-> "exe"]
    /\ runYml \in [Pots -> {NoRunYml} \cup {rc \in RunConfigs : rc.target = "running"}]
    /\ runningInstances = EmptyMap
    /\ children = <<>>
    /\ mu = 0
    /\ firstPass = NoPass
    /\ tasks = [t \in {} |-> 0]

InitRouter == RouterInit /\ KeeperIdleInit /\ LoaderIdleInit /\ HostIdleInit

SpecRouter == InitRouter /\ [][RouterNext]_vars


-----------------------------------------------------------------------------
(* Router refresh endpoint, as one call *)

DocRoot == <<"w">>

\* RegisterStatic from Lock to Unlock
RegisterStatic(pr, sr, org, name, root) ==
    LET r == removeRoutesInternal(pr, sr, org, name) IN
    registerThreeRoutesInternal(r.pr, r.sr, org, name, StaticTarget(root))

\* RegisterExe from Lock to Unlock; err is "" on success
RegisterExe(pr, sr, org, name, rc) ==
    LET r == removeRoutesInternal(pr, sr, org, name)
        t == ExeTarget(rc) IN
    IF t.err # "" THEN [pr |-> r.pr, sr |-> r.sr, err |-> t.err]
    ELSE LET n == registerThreeRoutesInternal(r.pr, r.sr, org, name, t.target)
         IN [pr |-> n.pr, sr |-> n.sr, err |-> ""]

\* a handler that answers 200 whatever RegisterExe returns
RefreshHandlerHidesError(pr, sr, p, potType, rc) ==
    IF potType = "none" THEN [pr |-> pr, sr |-> sr, status |-> 404]
    ELSE IF potType = "static"
    THEN LET r == RegisterStatic(pr, sr, p.org, p.name, DocRoot)
         IN [pr |-> r.pr, sr |-> r.sr, status |-> 200]
    ELSE IF potType = "exe"
    THEN LET r == RegisterExe(pr, sr, p.org, p.name, rc)
         IN [pr |-> r.pr, sr |-> r.sr, status |-> 200]
    ELSE [pr |-> pr, sr |-> sr, status |-> 400]

\* RefreshHandler for a well-formed body {org, name}: the status it answers
\* and the routes it leaves
RefreshHandler(pr, sr, p, potType, rc) ==
    IF potType = "none" THEN [pr |-> pr, sr |-> sr, status |-> 404]
    ELSE IF potType = "static"
    THEN LET r == RegisterStatic(pr, sr, p.org, p.name, DocRoot)
         IN [pr |-> r.pr, sr |-> r.sr, status |-> 200]
    ELSE IF potType = "exe"
    THEN LET r == RegisterExe(pr, sr, p.org, p.name, rc)
         IN [pr |-> r.pr, sr |-> r.sr, status |-> IF r.err = "" THEN 200 ELSE 500]
    ELSE [pr |-> pr, sr |-> sr, status |-> 400]

-----------------------------------------------------------------------------
(* Sandbox Manager (Keeper) *)

MaxChildren == 2

Waiters  == 1..MaxChildren
KeeperId == MaxChildren + 1
ExtId    == MaxChildren + 2
TaskIds  == 1..(MaxChildren + 2)

\* the pots whose pot.yml says type: exe
ExePots == {PotB}

\* potstack/keeper: the repository createSystemRepos creates, and the pot the
\* dual-mode design hands the supervision of all other pots to
KeeperPot == [org |-> <<"p", "o", "t", "s", "t", "a", "c", "k">>,
              name |-> <<"k", "e", "e", "p", "e", "r">>]

InstalledPots == Pots \cup {KeeperPot}

\* GetInstalledPots: os.ReadDir order
PotList == <<PotB, PotBB, KeeperPot>>

Idle == [pc |-> "idle", op |-> "none", pot |-> NoPot, idx |-> 0,
         rc |-> NoRunYml, child |-> 0]

KeyOf(p) == Key(p.org, p.name)

\* loadRunConfig: (nil, err) is NoRunYml
loadRunConfig(p) == runYml[p]

\* a look at runningInstances that never finds the key
RunningNever(p) == FALSE

\* a look at runningInstances that finds every key
RunningAlways(p) == TRUE

\* reconcile, lines 121-123: _, running := s.runningInstances[key]
Running(p) == KeyOf(p) \in DOMAIN runningInstances

LivePorts == {children[c].port : c \in {d \in DOMAIN children : children[d].alive}}

\* a refresh that never reaches the Router
refreshRouteLost(p) == UNCHANGED <<pathRoutes, sandboxRoutes>>

\* the POST of refreshRoute, served by RefreshHandler
refreshRoute(p) ==
    \E r \in {RefreshHandler(pathRoutes, sandboxRoutes, p, potYml[p], runYml[p])} :
        /\ pathRoutes' = r.pr
        /\ sandboxRoutes' = r.sr

SetTask(t, f) == tasks' = [tasks EXCEPT ![t] = f]

\* where a task continues once Start has returned
AfterStart(f) ==
    IF f.op = "reconcile"
    THEN [Idle EXCEPT !.pc = "reconcile", !.op = "reconcile", !.idx = f.idx + 1]
    ELSE IF f.op = "watch" THEN [f EXCEPT !.pc = "done"]
    ELSE Idle

\* where a task continues once Stop has returned
AfterStop(f) ==
    IF f.op = "reconcile"
    THEN [Idle EXCEPT !.pc = "reconcile", !.op = "reconcile", !.idx = f.idx + 1]
    ELSE IF f.op = "signal" THEN [f EXCEPT !.pc = "start", !.child = 0]
    ELSE Idle

KeeperInit ==
    /\ potYml \in {f \in [InstalledPots -> {"exe", "static", "none"}] :
                      /\ \A p \in Pots : f[p] = "exe" <=> p \in ExePots
                      /\ f[KeeperPot] = "none"}
    /\ runYml \in {f \in [InstalledPots -> {NoRunYml} \cup RunConfigs] :
                      /\ f[PotBB] = NoRunYml
                      /\ f[KeeperPot] = NoRunYml
                      /\ f[PotB] # NoRunYml => f[PotB].port = 1}
    /\ runningInstances = EmptyMap
    /\ children = <<>>
    /\ mu = 0
    /\ firstPass = NoPass
    /\ tasks = [t \in TaskIds |->
                  IF t = KeeperId
                  THEN [Idle EXCEPT !.pc = "reconcile", !.op = "reconcile", !.idx = 1]
                  ELSE Idle]

\* reconcile, lines 90-118: next pot of the list, pot.yml, run.yml
ReconcileLoad ==
    LET f == tasks[KeeperId] IN
    /\ f.pc = "reconcile"
    /\ IF f.idx > Len(PotList)
       THEN SetTask(KeeperId, [Idle EXCEPT !.pc = "loop", !.op = "monitor"])
       ELSE LET p == PotList[f.idx]
                next == [f EXCEPT !.idx = f.idx + 1] IN
            IF potYml[p] = "static"
            THEN SetTask(KeeperId, [f EXCEPT !.pc = "rec_refresh", !.pot = p])
            ELSE IF potYml[p] = "exe"
            THEN IF loadRunConfig(p) = NoRunYml
                 THEN \/ SetTask(KeeperId, next)       \* createRuntime failed
                      \/ SetTask(KeeperId, [f EXCEPT !.pc = "start", !.pot = p])
                 ELSE SetTask(KeeperId, [f EXCEPT !.pc = "rec_check", !.pot = p,
                                                  !.rc = loadRunConfig(p)])
            ELSE SetTask(KeeperId, next)
    /\ UNCHANGED <<potYml, runYml, runningInstances, children, mu>>
    /\ UNCHANGED routerVars /\ UNCHANGED loaderVars /\ UNCHANGED hostVars

\* reconcile, lines 121-143: the RLock-ed look at runningInstances
ReconcileCheck ==
    LET f == tasks[KeeperId] IN
    /\ f.pc = "rec_check"
    /\ mu = 0
    /\ SetTask(KeeperId,
          IF f.rc.target = "running"
          THEN IF ~Running(f.pot) THEN [f EXCEPT !.pc = "start", !.rc = NoRunYml]
               ELSE [f EXCEPT !.pc = "rec_refresh", !.rc = NoRunYml]
          ELSE IF Running(f.pot) THEN [f EXCEPT !.pc = "stop", !.rc = NoRunYml]
               ELSE [Idle EXCEPT !.pc = "reconcile", !.op = "reconcile", !.idx = f.idx + 1])
    /\ UNCHANGED <<potYml, runYml, runningInstances, children, mu>>
    /\ UNCHANGED routerVars /\ UNCHANGED loaderVars /\ UNCHANGED hostVars /\ UNCHANGED firstPass

\* reconcile, lines 100 and 132: refreshRoute, then the next pot
ReconcileRefresh ==
    LET f == tasks[KeeperId] IN
    /\ f.pc = "rec_refresh"
    /\ refreshRoute(f.pot)
    /\ SetTask(KeeperId, [Idle EXCEPT !.pc = "reconcile", !.op = "reconcile", !.idx = f.idx + 1])
    /\ UNCHANGED <<potYml, runYml, runningInstances, children, mu>>
    /\ UNCHANGED <<rw, inflight, lastDispatch>> /\ UNCHANGED loaderVars /\ UNCHANGED hostVars /\ UNCHANGED firstPass

\* a Start that goes to its route refresh with sm.mu still in its hands
StartUnlockMissing(t) == t

\* Start, line 362: s.mu.Unlock() before refreshRoute; the holder it leaves
StartUnlock(t) == 0

\* Stop, line 394: s.mu.Unlock() before refreshRoute; the holder it leaves
StopUnlock(t) == 0

\* the child Start spawns on the chosen port
NewChild(p, port) == [pot |-> p, port |-> port, alive |-> TRUE]

\* a JobCmd.Start that returns its error with the process it started alive
FailedChildLeftRunning(p, port) == [pot |-> p, port |-> port, alive |-> TRUE]

\* JobCmd.Start, lines 59-73: the process has started, OpenProcess or
\* AssignProcessToJobObject fails, the process is killed and the error returned
FailedChild(p, port) == [pot |-> p, port |-> port, alive |-> FALSE]

\* the run.yml Start writes
StartedRunConfig(port, pid) == [target |-> "running", port |-> port, pid |-> pid]

\* Start, lines 251-362, the section under sm.mu: pot.yml, port, pot.exe,
\* jobCmd.Start, saveRunConfig, runningInstances[key], go watchProcess, Unlock;
\* every error return runs the deferred Unlock and leaves everything as it
\* was, but for a process jobCmd.Start started and killed
StartSpawn(t) ==
    LET f == tasks[t]
        c == Len(children) + 1 IN
    /\ f.pc = "start"
    /\ mu = 0
    /\ \/ /\ potYml[f.pot] = "exe"
          /\ Len(children) < MaxChildren
          /\ \E port \in Ports \ LivePorts :
                /\ children' = Append(children, NewChild(f.pot, port))
                /\ runYml' = [runYml EXCEPT ![f.pot] = StartedRunConfig(port, c)]
          /\ runningInstances' = Put(runningInstances, KeyOf(f.pot), c)
          /\ tasks' = [tasks EXCEPT ![t] = [f EXCEPT !.pc = "start_refresh"],
                                    ![c] = [Idle EXCEPT !.pc = "wait", !.op = "watch",
                                                        !.pot = f.pot, !.child = c]]
          /\ mu' = StartUnlock(t)
       \/ /\ SetTask(t, AfterStart(f))                 \* Start returned an error
          /\ \/ UNCHANGED children
             \/ /\ potYml[f.pot] = "exe"               \* from jobCmd.Start
                /\ Len(children) < MaxChildren
                /\ \E port \in Ports \ LivePorts :
                      children' = Append(children, FailedChild(f.pot, port))
          /\ UNCHANGED <<runYml, runningInstances, mu>>
    /\ UNCHANGED potYml
    /\ UNCHANGED routerVars /\ UNCHANGED loaderVars /\ UNCHANGED hostVars

\* Start, line 363: refreshRoute with the lock released
StartRefresh(t) ==
    LET f == tasks[t] IN
    /\ f.pc = "start_refresh"
    /\ refreshRoute(f.pot)
    /\ SetTask(t, [f EXCEPT !.pc = "start_relock"])
    /\ UNCHANGED <<potYml, runYml, runningInstances, children, mu>>
    /\ UNCHANGED <<rw, inflight, lastDispatch>> /\ UNCHANGED loaderVars /\ UNCHANGED hostVars /\ UNCHANGED firstPass

\* Start, lines 364-366: Lock again, return nil, deferred Unlock
StartReturn(t) ==
    LET f == tasks[t] IN
    /\ f.pc = "start_relock"
    /\ mu = 0
    /\ SetTask(t, AfterStart(f))
    /\ UNCHANGED <<potYml, runYml, runningInstances, children, mu>>
    /\ UNCHANGED routerVars /\ UNCHANGED loaderVars /\ UNCHANGED hostVars /\ UNCHANGED firstPass

\* the run.yml Stop writes: the loaded one (or an empty RunConfig) with
\* TargetStatus = stopped
StoppedRunConfig(rc) ==
    IF rc = NoRunYml THEN [target |-> "stopped", port |-> 0, pid |-> 0]
    ELSE [rc EXCEPT !.target = "stopped"]

\* Stop, lines 370-394, the section under sm.mu: Kill and delete when the pot
\* is in the map, loadRunConfig, saveRunConfig, Unlock
StopKill(t) ==
    LET f == tasks[t] IN
    /\ f.pc = "stop"
    /\ mu = 0
    /\ IF Running(f.pot)
       THEN /\ children' = [children EXCEPT ![runningInstances[KeyOf(f.pot)]].alive = FALSE]
            /\ runningInstances' = Del(runningInstances, KeyOf(f.pot))
            /\ SetTask(t, [f EXCEPT !.pc = "stop_refresh",
                                    !.child = runningInstances[KeyOf(f.pot)]])
       ELSE /\ UNCHANGED <<children, runningInstances>>
            /\ SetTask(t, [f EXCEPT !.pc = "stop_refresh"])
    /\ runYml' = [runYml EXCEPT ![f.pot] = StoppedRunConfig(loadRunConfig(f.pot))]
    /\ mu' = StopUnlock(t)
    /\ UNCHANGED potYml
    /\ UNCHANGED routerVars /\ UNCHANGED loaderVars /\ UNCHANGED hostVars /\ UNCHANGED firstPass

\* Stop, line 395: refreshRoute with the lock released
StopRefresh(t) ==
    LET f == tasks[t] IN
    /\ f.pc = "stop_refresh"
    /\ refreshRoute(f.pot)
    /\ SetTask(t, [f EXCEPT !.pc = "stop_relock"])
    /\ UNCHANGED <<potYml, runYml, runningInstances, children, mu>>
    /\ UNCHANGED <<rw, inflight, lastDispatch>> /\ UNCHANGED loaderVars /\ UNCHANGED hostVars /\ UNCHANGED firstPass

\* Stop, lines 396-399: Lock again, return nil, deferred Unlock
StopReturn(t) ==
    LET f == tasks[t] IN
    /\ f.pc = "stop_relock"
    /\ mu = 0
    /\ SetTask(t, AfterStop(f))
    /\ UNCHANGED <<potYml, runYml, runningInstances, children, mu>>
    /\ UNCHANGED routerVars /\ UNCHANGED loaderVars /\ UNCHANGED hostVars /\ UNCHANGED firstPass

\* watchProcess, lines 403-408: Wait has returned; Lock, delete(key), Unlock
WatchDelete(t) ==
    LET f == tasks[t] IN
    /\ f.pc = "wait"
    /\ ~children[f.child].alive
    /\ mu = 0
    /\ runningInstances' = Del(runningInstances, KeyOf(f.pot))
    /\ SetTask(t, [f EXCEPT !.pc = "watch_load"])
    /\ UNCHANGED <<potYml, runYml, children, mu>>
    /\ UNCHANGED routerVars /\ UNCHANGED loaderVars /\ UNCHANGED hostVars /\ UNCHANGED firstPass

\* a waiter that restarts whatever run.yml says
ShouldRestartAlways(rc) == TRUE

\* the waiter's decision, line 415
ShouldRestart(rc) == rc # NoRunYml /\ rc.target = "running"

\* watchProcess, lines 411-417: loadRunConfig and the decision; the task
\* then sleeps 1 s before it calls Start
WatchLoad(t) ==
    LET f == tasks[t] IN
    /\ f.pc = "watch_load"
    /\ SetTask(t, IF ShouldRestart(loadRunConfig(f.pot))
                  THEN [f EXCEPT !.pc = "start"]
                  ELSE [f EXCEPT !.pc = "done"])
    /\ UNCHANGED <<potYml, runYml, runningInstances, children, mu>>
    /\ UNCHANGED routerVars /\ UNCHANGED loaderVars /\ UNCHANGED hostVars /\ UNCHANGED firstPass

\* StartKeeper, lines 72-75: a tick of the 5 s ticker; monitor takes sm.mu
MonitorTick ==
    LET f == tasks[KeeperId] IN
    /\ f.pc = "loop"
    /\ mu = 0
    /\ mu' = KeeperId
    /\ SetTask(KeeperId, [f EXCEPT !.pc = "monitor"])
    /\ UNCHANGED <<potYml, runYml, runningInstances, children>>
    /\ UNCHANGED routerVars /\ UNCHANGED loaderVars /\ UNCHANGED hostVars /\ UNCHANGED firstPass

\* monitor, lines 205-210: the loop over runningInstances does nothing, the
\* deferred Unlock runs, StartKeeper selects again
MonitorReturn ==
    LET f == tasks[KeeperId] IN
    /\ f.pc = "monitor"
    /\ mu' = 0
    /\ SetTask(KeeperId, [f EXCEPT !.pc = "loop"])
    /\ UNCHANGED <<potYml, runYml, runningInstances, children>>
    /\ UNCHANGED routerVars /\ UNCHANGED loaderVars /\ UNCHANGED hostVars /\ UNCHANGED firstPass

\* a child exits on its own or is killed out-of-band
ChildExit ==
    /\ \E c \in DOMAIN children :
          /\ children[c].alive
          /\ children' = [children EXCEPT ![c].alive = FALSE]
    /\ UNCHANGED <<potYml, runYml, runningInstances, mu, tasks>>
    /\ UNCHANGED routerVars /\ UNCHANGED loaderVars /\ UNCHANGED hostVars /\ UNCHANGED firstPass

\* another goroutine calls the exported Start
ExtStart ==
    /\ tasks[ExtId].pc = "idle"
    /\ \E p \in ExePots :
          SetTask(ExtId, [Idle EXCEPT !.pc = "start", !.op = "start", !.pot = p])
    /\ UNCHANGED <<potYml, runYml, runningInstances, children, mu>>
    /\ UNCHANGED routerVars /\ UNCHANGED loaderVars /\ UNCHANGED hostVars /\ UNCHANGED firstPass

\* another goroutine calls the exported Stop
ExtStop ==
    /\ tasks[ExtId].pc = "idle"
    /\ \E p \in ExePots :
          SetTask(ExtId, [Idle EXCEPT !.pc = "stop", !.op = "stop", !.pot = p])
    /\ UNCHANGED <<potYml, runYml, runningInstances, children, mu>>
    /\ UNCHANGED routerVars /\ UNCHANGED loaderVars /\ UNCHANGED hostVars /\ UNCHANGED firstPass

\* the Loader calls SignalUpdate, line 234
SignalUpdate ==
    /\ tasks[ExtId].pc = "idle"
    /\ \E p \in ExePots :
          SetTask(ExtId, [Idle EXCEPT !.pc = "create", !.op = "signal", !.pot = p])
    /\ UNCHANGED <<potYml, runYml, runningInstances, children, mu>>
    /\ UNCHANGED routerVars /\ UNCHANGED loaderVars /\ UNCHANGED hostVars /\ UNCHANGED firstPass

\* SignalUpdate, line 238: createRuntime has returned
AfterCreateRuntime(f, err) ==
    IF err THEN [f EXCEPT !.pc = "create_failed"] ELSE [f EXCEPT !.pc = "stop"]

\* a SignalUpdate that logs the error of createRuntime and goes on to Stop
AfterFailedRuntimeGoesOn(f) == [f EXCEPT !.pc = "stop"]

\* SignalUpdate, lines 239-240: the error is logged and SignalUpdate returns
AfterFailedRuntime(f) == Idle

\* SignalUpdate, line 238: createRuntime, which makes the directories and
\* clones the repository into program/, and fails when one of these does
CreateRuntime ==
    /\ tasks[ExtId].pc = "create"
    /\ \E err \in BOOLEAN : SetTask(ExtId, AfterCreateRuntime(tasks[ExtId], err))
    /\ UNCHANGED <<potYml, runYml, runningInstances, children, mu>>
    /\ UNCHANGED routerVars /\ UNCHANGED loaderVars /\ UNCHANGED hostVars /\ UNCHANGED firstPass

\* SignalUpdate, lines 239-240, after a failed createRuntime
SignalReturn ==
    /\ tasks[ExtId].pc = "create_failed"
    /\ SetTask(ExtId, AfterFailedRuntime(tasks[ExtId]))
    /\ UNCHANGED <<potYml, runYml, runningInstances, children, mu>>
    /\ UNCHANGED routerVars /\ UNCHANGED loaderVars /\ UNCHANGED hostVars /\ UNCHANGED firstPass

ReconcileLoadStep == ReconcileLoad /\ UNCHANGED firstPass
StartSpawnStep   == (\E t \in TaskIds : StartSpawn(t)) /\ UNCHANGED firstPass
StartRefreshStep == \E t \in TaskIds : StartRefresh(t)
StartReturnStep  == \E t \in TaskIds : StartReturn(t)
StopKillStep     == \E t \in TaskIds : StopKill(t)
StopRefreshStep  == \E t \in TaskIds : StopRefresh(t)
StopReturnStep   == \E t \in TaskIds : StopReturn(t)
WatchDeleteStep  == \E t \in Waiters : WatchDelete(t)
WatchLoadStep    == \E t \in Waiters : WatchLoad(t)

KeeperNext ==
    \/ ReconcileLoadStep
    \/ ReconcileCheck
    \/ ReconcileRefresh
    \/ StartSpawnStep
    \/ StartRefreshStep
    \/ StartReturnStep
    \/ StopKillStep
    \/ StopRefreshStep
    \/ StopReturnStep
    \/ WatchDeleteStep
    \/ WatchLoadStep
    \/ MonitorTick
    \/ MonitorReturn
    \/ ChildExit
    \/ ExtStart
    \/ ExtStop
    \/ SignalUpdate
    \/ CreateRuntime
    \/ SignalReturn

InitKeeper == RouterInit /\ KeeperInit /\ LoaderIdleInit /\ HostIdleInit

SpecKeeper == InitKeeper /\ [][KeeperNext]_vars

\* a step of a waiter goroutine: of watchProcess, or of the Start it calls
WaiterStep ==
    \E t \in Waiters :
        \/ WatchDelete(t) \/ WatchLoad(t) \/ StartRefresh(t) \/ StartReturn(t)
        \/ StartSpawn(t) /\ UNCHANGED firstPass

\* a waiter goroutine that can take a step eventually takes one; child exits
\* and the calls of other goroutines are under no such obligation
KeeperFairness == WF_vars(WaiterStep)

\* the Keeper with its waiters, child exits and Stop calls from outside
RestartNext ==
    \/ ReconcileLoadStep
    \/ ReconcileCheck
    \/ ReconcileRefresh
    \/ StartSpawnStep
    \/ StartRefreshStep
    \/ StartReturnStep
    \/ StopKillStep
    \/ StopRefreshStep
    \/ StopReturnStep
    \/ WatchDeleteStep
    \/ WatchLoadStep
    \/ ChildExit
    \/ ExtStop

FairSpecKeeper == InitKeeper /\ [][RestartNext]_vars /\ KeeperFairness

-----------------------------------------------------------------------------
(* reconcile, run twice over the same inputs *)

\* what two passes are compared on
PassState == [runYml |-> runYml, runningInstances |-> runningInstances,
              pathRoutes |-> pathRoutes, sandboxRoutes |-> sandboxRoutes]

\* the routes an earlier refresh of the exe pot left, if any
ReconcileRouterInit ==
    /\ \E rc \in {NoRunYml} \cup RunConfigs :
          LET r == RefreshHandler(EmptyMap, EmptyMap, PotB, "exe", rc) IN
          /\ pathRoutes = r.pr
          /\ sandboxRoutes = r.sr
    /\ rw = RwIdle
    /\ inflight = 0
    /\ lastDispatch = NoDispatch

\* the inputs of reconcile: pot.yml and run.yml of every pot, and the child
\* an earlier Start may have left in runningInstances, with its waiter
ReconcileInit ==
    /\ potYml \in {f \in [InstalledPots -> {"exe", "static", "none"}] :
                      /\ \A p \in Pots : f[p] = "exe" <=> p \in ExePots
                      /\ f[KeeperPot] \in {"exe", "none"}}
    /\ runYml \in {f \in [InstalledPots -> {NoRunYml} \cup RunConfigs] :
                      f[PotBB] = NoRunYml /\ f[KeeperPot] = NoRunYml}
    /\ children \in {<<>>} \cup {<<NewChild(PotB, port)>> : port \in Ports}
    /\ runningInstances = IF children = <<>> THEN EmptyMap
                          ELSE Put(EmptyMap, KeyOf(PotB), 1)
    /\ mu = 0
    /\ firstPass = NoPass
    /\ tasks = [t \in TaskIds |->
                  IF t = KeeperId
                  THEN [Idle EXCEPT !.pc = "reconcile", !.op = "reconcile", !.idx = 1]
                  ELSE IF t = 1 /\ children # <<>>
                  THEN [Idle EXCEPT !.pc = "wait", !.op = "watch", !.pot = PotB, !.child = 1]
                  ELSE Idle]

\* ReconcileLoad; createRuntime fails in the second pass for the pots it
\* failed for in the first one, and for no other
PassLoad ==
    LET f == tasks[KeeperId] IN
    /\ ReconcileLoad
    /\ IF \/ f.idx > Len(PotList)
          \/ potYml[PotList[f.idx]] # "exe"
          \/ loadRunConfig(PotList[f.idx]) # NoRunYml
       THEN UNCHANGED firstPass
       ELSE LET p == PotList[f.idx]
                runtimeFailed == tasks'[KeeperId].pc = "reconcile" IN
            IF firstPass.n = 0
            THEN firstPass' = [firstPass EXCEPT !.noRuntime =
                                  IF runtimeFailed THEN @ \cup {p} ELSE @]
            ELSE /\ runtimeFailed <=> p \in firstPass.noRuntime
                 /\ UNCHANGED firstPass

\* the Start reconcile calls; it fails in the second pass for the pots it
\* failed for in the first one, and for no other
PassStartSpawn ==
    LET p == tasks[KeeperId].pot
        spawned == IF Len(children') > Len(children)
                   THEN children'[Len(children')].alive ELSE FALSE IN
    /\ StartSpawn(KeeperId)
    /\ IF firstPass.n = 0
       THEN firstPass' = [firstPass EXCEPT !.failed = IF spawned THEN @ ELSE @ \cup {p}]
       ELSE /\ spawned <=> p \notin firstPass.failed
            /\ UNCHANGED firstPass

\* the first pass has returned: reconcile is called again
SecondPass ==
    /\ tasks[KeeperId].pc = "loop"
    /\ firstPass.n = 0
    /\ firstPass' = [firstPass EXCEPT !.n = 1, !.after = <<PassState>>]
    /\ SetTask(KeeperId, [Idle EXCEPT !.pc = "reconcile", !.op = "reconcile", !.idx = 1])
    /\ UNCHANGED <<potYml, runYml, runningInstances, children, mu>>
    /\ UNCHANGED routerVars /\ UNCHANGED loaderVars /\ UNCHANGED hostVars

ReconcileNext ==
    \/ PassLoad
    \/ ReconcileCheck
    \/ ReconcileRefresh
    \/ PassStartSpawn
    \/ StartRefreshStep
    \/ StartReturnStep
    \/ StopKillStep
    \/ StopRefreshStep
    \/ StopReturnStep
    \/ WatchDeleteStep
    \/ WatchLoadStep
    \/ SecondPass

InitReconcile == ReconcileRouterInit /\ ReconcileInit /\ LoaderIdleInit /\ HostIdleInit

SpecReconcile == InitReconcile /\ [][ReconcileNext]_vars

-----------------------------------------------------------------------------
(* Loader: state machine *)

KeeperOffInit ==
    /\ potYml = [p \in Pots |-> "none"]
    /\ runYml = [p \in Pots |-> NoRunYml]
    /\ runningInstances = EmptyMap
    /\ children = <<>>
    /\ mu = 0
    /\ firstPass = NoPass
    /\ tasks = [t \in {} |-> 0]

LoaderInit ==
    /\ users \in [OwnerSet -> {NoUser} \cup [exists : {TRUE}, publicKey : StoredKeys]]
    /\ pushLog = {}
    /\ lastDeploy = NoDeploy
    /\ health = FALSE
    /\ boot = BootOff

\* one call of deployPPK, from os.Open to its return
DeployPPK ==
    /\ \E pkg \in Packages, fault \in Faults :
          LET r == deployPPK(users, pkg, fault) IN
          /\ users' = r.users
          /\ pushLog' = pushLog \cup r.pushed
          /\ lastDeploy' = [result |-> IF r.err = "" THEN "ok" ELSE "error",
                            pkg |-> pkg, before |-> users, wrote |-> r.wrote,
                            pushed |-> r.pushed, err |-> r.err]
    /\ UNCHANGED <<health, boot>>
    /\ UNCHANGED routerVars /\ UNCHANGED keeperVars /\ UNCHANGED hostVars

\* UserService.CreateUser called through the API for an owner not yet known
CreateUser ==
    /\ \E o \in OwnerSet :
          /\ ~users[o].exists
          /\ users' = [users EXCEPT ![o] = NewUser]
    /\ UNCHANGED <<pushLog, lastDeploy, health, boot>>
    /\ UNCHANGED routerVars /\ UNCHANGED keeperVars /\ UNCHANGED hostVars

LoaderNext ==
    \/ DeployPPK
    \/ CreateUser

InitLoader == RouterInit /\ KeeperOffInit /\ LoaderInit /\ HostIdleInit

SpecLoader == InitLoader /\ [][LoaderNext]_vars

-----------------------------------------------------------------------------
(* Startup: main, loader.StartAsync, Loader.Initialize, deployComponents *)

MaxBody == 2
MaxPackages == 2
AsyncRetries == 2
InitRetries == 2

\* the bytes after the 128-byte header: entries of the zip, then its end
\* record; 0 is the end record (or a plain file when it is not the last
\* byte), b > 0 the directory of owner OwnerList[b]
Bytes  == 0..Len(OwnerList)
Bodies == UNION {[1..n -> Bytes] : n \in 0..MaxBody}

\* an ed25519 signature: the key that made it and the data it was made over
Signatures == [key : HeaderKeys, data : Bodies]

\* a .ppk file as deployComponents finds it; all that matters of a file
\* whose header does not parse is why
Files ==
    [format : {"missing", "short", "magic", "version", "algo"}, contentLen : {0},
     publicKey : {<<10>>}, signature : {[key |-> <<10>>, data |-> <<>>]},
     body : {<<>>}]
    \cup [format : {"ok"}, contentLen : 0..MaxBody, publicKey : HeaderKeys,
          signature : Signatures, body : Bodies]

\* ParsePpkHeader: nil header and an error, or the header fields
ParsePpkHeader(f) ==
    IF f.format = "short" THEN [err |-> "failed to read ppk header", hdr |-> NoHeader]
    ELSE IF f.format = "magic" THEN [err |-> "invalid ppk magic", hdr |-> NoHeader]
    ELSE IF f.format = "version" THEN [err |-> "unsupported ppk version", hdr |-> NoHeader]
    ELSE IF f.format = "algo"
    THEN [err |-> "unsupported signature algorithm", hdr |-> NoHeader]
    ELSE [err |-> "", hdr |-> [contentLen |-> f.contentLen, publicKey |-> f.publicKey,
                               signature |-> f.signature]]

\* io.ReadFull(f, content) with len(content) = n: the next n bytes of the
\* stream, an error when it holds fewer
ReadFull(stream, n) ==
    IF Len(stream) < n THEN [err |-> "failed to read ppk content", content |-> <<>>]
    ELSE [err |-> "", content |-> SubSeq(stream, 1, n)]

\* ed25519.Verify(publicKey, message, sig)
Ed25519Verify(publicKey, message, sig) == sig.key = publicKey /\ sig.data = message

\* a VerifySignature that accepts whatever it is given
VerifySignatureSkipped(h, data, trustedPubKey) == ""

\* a VerifySignature that never compares the header key with the trusted key
VerifySignatureUnpinned(h, data, trustedPubKey) ==
    IF ~Ed25519Verify(h.publicKey, data, h.signature)
    THEN "signature verification failed"
    ELSE ""

\* PpkHeader.VerifySignature: "" for nil
VerifySignature(h, data, trustedPubKey) ==
    IF Len(trustedPubKey) > 0 /\ h.publicKey # trustedPubKey THEN "public key mismatch"
    ELSE IF ~Ed25519Verify(h.publicKey, data, h.signature)
    THEN "signature verification failed"
    ELSE ""

\* zip.NewReader: the content ends with the end record
IsZip(content) == Len(content) > 0 /\ content[Len(content)] = 0

\* the directories os.ReadDir finds in the extracted tree
ZipOwners(content) ==
    {OwnerList[content[j]] : j \in {k \in 1..(Len(content) - 1) : content[k] > 0}}

\* waitForService, the test of one poll: err == nil && StatusCode == 200
ServiceReadyAlways(up) == TRUE

ServiceReady(up) == up

\* a deployComponents that gives up at the first package that fails
AfterPackageAbort(b, err) ==
    LET next == [b EXCEPT !.idx = b.idx + 1, !.hdr = NoHeader, !.buf = <<>>,
                          !.pkg = NoPkg, !.dir = "none", !.lastErr = err,
                          !.warnings = IF err # "" THEN b.warnings + 1 ELSE b.warnings]
    IN [next EXCEPT !.pc = IF err # "" THEN "fatal"
                           ELSE IF next.idx > b.n THEN "set_provider" ELSE "ppk_parse"]

\* deployPPK returns (its deferred RemoveAll removes the extracted tree);
\* deployComponents, lines 211-217: the error is logged, the loop goes on
AfterPackage(b, err) ==
    LET next == [b EXCEPT !.idx = b.idx + 1, !.hdr = NoHeader, !.buf = <<>>,
                          !.pkg = NoPkg, !.dir = "none", !.lastErr = err,
                          !.warnings = IF err # "" THEN b.warnings + 1 ELSE b.warnings]
    IN [next EXCEPT !.pc = IF next.idx > b.n THEN "set_provider" ELSE "ppk_parse"]

\* main has started runService and loader.StartAsync and the goroutine that
\* waits for loaderDone
BootInit ==
    /\ users \in [OwnerSet -> {NoUser, [exists |-> TRUE, publicKey |-> Hex(<<10>>)]}]
    /\ pushLog = {}
    /\ lastDeploy = NoDeploy
    /\ health = FALSE
    /\ boot = [BootOff EXCEPT !.pc = "wait_async"]

BootKeeperInit ==
    /\ potYml = [p \in Pots |-> "none"]
    /\ runYml = [p \in Pots |-> NoRunYml]
    /\ runningInstances = EmptyMap
    /\ children = <<>>
    /\ mu = 0
    /\ firstPass = NoPass
    /\ tasks = [t \in TaskIds |->
                  IF t = KeeperId THEN [Idle EXCEPT !.pc = "await_loader", !.op = "main"]
                  ELSE Idle]

\* runInternalService listens: /health answers from now on
ServiceUp ==
    /\ ~health
    /\ health' = TRUE
    /\ UNCHANGED <<users, pushLog, lastDeploy, boot>>
    /\ UNCHANGED routerVars /\ UNCHANGED keeperVars /\ UNCHANGED hostVars

\* initLoader's waitForService: one poll; the loop ends at the first 200 or
\* when the retries are used up, and initLoader goes on to Initialize
AsyncPoll ==
    /\ boot.pc = "wait_async"
    /\ boot' = IF ServiceReady(health)
               THEN [boot EXCEPT !.pc = "init_wait", !.i = 0, !.answered = health]
               ELSE IF boot.i + 1 < AsyncRetries THEN [boot EXCEPT !.i = boot.i + 1]
               ELSE [boot EXCEPT !.pc = "init_wait", !.i = 0]
    /\ UNCHANGED <<users, pushLog, lastDeploy, health>>
    /\ UNCHANGED routerVars /\ UNCHANGED keeperVars /\ UNCHANGED hostVars

\* Loader.waitForService inside Initialize: one poll; an error when the
\* retries are used up, which initLoader answers with log.Fatalf
InitPoll ==
    /\ boot.pc = "init_wait"
    /\ boot' = IF ServiceReady(health)
               THEN [boot EXCEPT !.pc = "sys_user", !.i = 0,
                                 !.answered = boot.answered \/ health]
               ELSE IF boot.i + 1 < InitRetries THEN [boot EXCEPT !.i = boot.i + 1]
               ELSE [boot EXCEPT !.pc = "fatal", !.lastErr = "service not available"]
    /\ UNCHANGED <<users, pushLog, lastDeploy, health>>
    /\ UNCHANGED routerVars /\ UNCHANGED keeperVars /\ UNCHANGED hostVars

\* createSystemUser: the user potstack is created or exists already, or the
\* store fails
CreateSystemUser ==
    /\ boot.pc = "sys_user"
    /\ \/ boot' = [boot EXCEPT !.pc = "sys_repos"]
       \/ boot' = [boot EXCEPT !.pc = "fatal", !.lastErr = "failed to create system user"]
    /\ UNCHANGED <<users, pushLog, lastDeploy, health>>
    /\ UNCHANGED routerVars /\ UNCHANGED keeperVars /\ UNCHANGED hostVars

\* createSystemRepos
CreateSystemRepos ==
    /\ boot.pc = "sys_repos"
    /\ \/ boot' = [boot EXCEPT !.pc = "unzip"]
       \/ boot' = [boot EXCEPT !.pc = "fatal", !.lastErr = "failed to create system repos"]
    /\ UNCHANGED <<users, pushLog, lastDeploy, health>>
    /\ UNCHANGED routerVars /\ UNCHANGED keeperVars /\ UNCHANGED hostVars

\* deployComponents, lines 182-207: the outer zip and install.yml; the
\* manifest lists n packages
Unzip ==
    /\ boot.pc = "unzip"
    /\ \/ boot' = [boot EXCEPT !.pc = "fatal", !.lastErr = "failed to unzip base pack"]
       \/ boot' = [boot EXCEPT !.pc = "fatal", !.lastErr = "failed to load install.yml"]
       \/ \E n \in 0..MaxPackages :
             boot' = [boot EXCEPT !.n = n, !.idx = 1,
                                  !.pc = IF n = 0 THEN "set_provider" ELSE "ppk_parse"]
    /\ UNCHANGED <<users, pushLog, lastDeploy, health>>
    /\ UNCHANGED routerVars /\ UNCHANGED keeperVars /\ UNCHANGED hostVars

\* deployPPK, lines 239-249: os.Open and ParsePpkHeader
DeployParse ==
    /\ boot.pc = "ppk_parse"
    /\ \E f \in Files :
          LET r == ParsePpkHeader(f) IN
          boot' = IF f.format = "missing" THEN AfterPackage(boot, "open failed")
                  ELSE IF r.err # "" THEN AfterPackage(boot, r.err)
                  ELSE [boot EXCEPT !.pc = "ppk_read", !.hdr = r.hdr, !.buf = f.body]
    /\ UNCHANGED <<users, pushLog, lastDeploy, health>>
    /\ UNCHANGED routerVars /\ UNCHANGED keeperVars /\ UNCHANGED hostVars

\* deployPPK, lines 253-256: content of header.ContentLen bytes
DeployRead ==
    /\ boot.pc = "ppk_read"
    /\ LET r == ReadFull(boot.buf, boot.hdr.contentLen) IN
       boot' = IF r.err # "" THEN AfterPackage(boot, r.err)
               ELSE [boot EXCEPT !.pc = "ppk_verify", !.buf = r.content]
    /\ UNCHANGED <<users, pushLog, lastDeploy, health>>
    /\ UNCHANGED routerVars /\ UNCHANGED keeperVars /\ UNCHANGED hostVars

\* deployPPK, lines 264-266: the self-check against the header's own key
DeployVerify ==
    /\ boot.pc = "ppk_verify"
    /\ LET err == VerifySignature(boot.hdr, boot.buf, boot.hdr.publicKey) IN
       boot' = IF err # "" THEN AfterPackage(boot, err)
               ELSE [boot EXCEPT !.pc = "ppk_extract"]
    /\ UNCHANGED <<users, pushLog, lastDeploy, health>>
    /\ UNCHANGED routerVars /\ UNCHANGED keeperVars /\ UNCHANGED hostVars

\* deployPPK, lines 269-287: zip.NewReader, extractZip, os.ReadDir
DeployExtract ==
    /\ boot.pc = "ppk_extract"
    /\ boot' = IF ~IsZip(boot.buf) THEN AfterPackage(boot, "failed to open zip reader")
               ELSE [boot EXCEPT !.pc = "ppk_deploy", !.dir = "extracted",
                                 !.pkg = [valid |-> TRUE, key |-> boot.hdr.publicKey,
                                          owners |-> ZipOwners(boot.buf)]]
    /\ UNCHANGED <<users, pushLog, lastDeploy, health>>
    /\ UNCHANGED routerVars /\ UNCHANGED keeperVars /\ UNCHANGED hostVars

\* deployPPK, lines 289-380: the two loops over the owner directories
DeployOwnersStep ==
    /\ boot.pc = "ppk_deploy"
    /\ \E fault \in Faults :
          LET r == deployPPK(users, boot.pkg, fault) IN
          /\ users' = r.users
          /\ pushLog' = pushLog \cup r.pushed
          /\ lastDeploy' = [result |-> IF r.err = "" THEN "ok" ELSE "error",
                            pkg |-> boot.pkg, before |-> users, wrote |-> r.wrote,
                            pushed |-> r.pushed, err |-> r.err]
          /\ boot' = AfterPackage(boot, r.err)
    /\ UNCHANGED health
    /\ UNCHANGED routerVars /\ UNCHANGED keeperVars /\ UNCHANGED hostVars

\* StartAsync, lines 117-119: Initialize returned nil; the Loader becomes the
\* Keeper's PotProvider and done is closed
CloseDone ==
    /\ boot.pc = "set_provider"
    /\ boot' = [boot EXCEPT !.pc = "closed"]
    /\ UNCHANGED <<users, pushLog, lastDeploy, health>>
    /\ UNCHANGED routerVars /\ UNCHANGED keeperVars /\ UNCHANGED hostVars

\* main, lines 76-79: <-loaderDone, then StartKeeper, which begins with
\* reconcile
KeeperStart ==
    /\ boot.pc = "closed"
    /\ tasks[KeeperId].pc = "await_loader"
    /\ SetTask(KeeperId, [Idle EXCEPT !.pc = "reconcile", !.op = "reconcile", !.idx = 1])
    /\ UNCHANGED <<potYml, runYml, runningInstances, children, mu, firstPass>>
    /\ UNCHANGED routerVars /\ UNCHANGED loaderVars /\ UNCHANGED hostVars

BootNext ==
    \/ ServiceUp
    \/ AsyncPoll
    \/ InitPoll
    \/ CreateSystemUser
    \/ CreateSystemRepos
    \/ Unzip
    \/ DeployParse
    \/ DeployRead
    \/ DeployVerify
    \/ DeployExtract
    \/ DeployOwnersStep
    \/ CloseDone
    \/ KeeperStart

InitBoot == RouterInit /\ BootKeeperInit /\ BootInit /\ HostIdleInit

SpecBoot == InitBoot /\ [][BootNext]_vars

-----------------------------------------------------------------------------
(* Certificate Manager (internal/https): file watcher and renewal checker *)

\* writes of cert.pem, by anyone, after the one Setup found
MaxWrites == 2

CertTaskIds == {"watcher", "checker", "setup", "force"}

\* a load that accepts whatever file is there
LoadX509KeyPairAny(d) == d.cert.life # "missing"

\* tls.LoadX509KeyPair: the certificate parses and the key is its key
LoadX509KeyPair(d) ==
    d.cert.life \in {"fresh", "window", "expired"} /\ d.key = d.cert.id

\* needsRenewal
needsRenewal(d) ==
    IF d.challenge = "off" THEN FALSE
    ELSE d.cert.life \in {"missing", "malformed", "expired", "window"}

\* renewInBackground is doRenew(false), renewWithBackup is doRenew(true)
WithBackup(t) == t = "setup"

\* where a goroutine is once doRenew returns
AfterRenew(t) == IF t = "checker" THEN "wait" ELSE "done"

SetCertTask(t, f) == [certTasks EXCEPT ![t] = f]

\* Setup has found a certificate that certValid accepts and loadCertConfig has
\* loaded it; inside the renewal window certValid has started renewWithBackup
CertInit ==
    /\ \E life \in {"fresh", "window"}, ch \in {"off", "dns-01", "http-01"} :
         /\ certDisk = [cert |-> [id |-> 1, life |-> life], key |-> 1, mod |-> 1,
                        challenge |-> ch]
         /\ certTasks = [t \in CertTaskIds |->
                           [pc |-> IF t = "watcher" THEN "tick"
                                   ELSE IF t = "checker" THEN "check"
                                   ELSE IF t = "force" THEN "idle"
                                   ELSE IF life = "window" THEN "renew" ELSE "done",
                            lastMod |-> 0, arch |-> 0]]
    /\ mcert = 1
    /\ certLog = <<>>
    /\ host = HostOff
    /\ xtr = XtrOff
    /\ reply = NoReply
    /\ sbx = SbxOff

\* StartCertWatcher, one tick up to the load: os.Stat, the ModTime comparison
\* and lastMod = info.ModTime()
WatcherStat ==
    /\ certTasks["watcher"].pc = "tick"
    /\ IF certDisk.cert.life # "missing" /\ certDisk.mod > certTasks["watcher"].lastMod
       THEN certTasks' = SetCertTask("watcher", [certTasks["watcher"] EXCEPT
                                                  !.pc = "load", !.lastMod = certDisk.mod])
       ELSE UNCHANGED certTasks
    /\ UNCHANGED <<certDisk, mcert, certLog>>

\* StartCertWatcher, the rest of the tick: LoadX509KeyPair, then m.cert = &cert
\* or the log line and continue
WatcherLoad ==
    /\ certTasks["watcher"].pc = "load"
    /\ mcert' = IF LoadX509KeyPair(certDisk) THEN certDisk.cert.id ELSE mcert
    /\ certTasks' = SetCertTask("watcher", [certTasks["watcher"] EXCEPT !.pc = "tick"])
    /\ UNCHANGED <<certDisk, certLog>>

\* StartRenewalChecker: needsRenewal, then renewInBackground or the ticker
CheckerCheck ==
    /\ certTasks["checker"].pc = "check"
    /\ certTasks' = SetCertTask("checker",
                       IF needsRenewal(certDisk)
                       THEN [certTasks["checker"] EXCEPT !.pc = "renew"]
                       ELSE [certTasks["checker"] EXCEPT !.pc = "wait"])
    /\ UNCHANGED <<certDisk, mcert, certLog>>

\* StartRenewalChecker: <-ticker.C
CheckerTick ==
    /\ certTasks["checker"].pc = "wait"
    /\ certTasks' = SetCertTask("checker", [certTasks["checker"] EXCEPT !.pc = "check"])
    /\ UNCHANGED <<certDisk, mcert, certLog>>

\* doRenew up to the request: the ACME check, archiveCurrent when withBackup,
\* the switch on the challenge type; arch is the place in certLog of the
\* archive this call made, 0 when it made none
RenewStart(t) ==
    /\ certTasks[t].pc = "renew"
    /\ LET archives == certDisk.challenge # "off" /\ WithBackup(t)
                        /\ certDisk.cert.life # "missing" IN
       /\ certLog' = IF archives
                     THEN Append(certLog, [op |-> "archive", by |-> t, arch |-> 0,
                                           cert |-> certDisk.cert.id])
                     ELSE certLog
       /\ certTasks' = SetCertTask(t, [certTasks[t] EXCEPT
                           !.pc = IF certDisk.challenge = "dns-01" THEN "obtain"
                                  ELSE AfterRenew(t),
                           !.arch = IF archives THEN Len(certLog) + 1 ELSE 0])
    /\ UNCHANGED <<certDisk, mcert>>

\* ForceRenew up to the request, called once through the admin API:
\* archiveCurrent whatever the configuration says, then the ACME check and the
\* switch on the challenge type
ForceRenew ==
    /\ certTasks["force"].pc = "idle"
    /\ LET archives == certDisk.cert.life # "missing" IN
       /\ certLog' = IF archives
                     THEN Append(certLog, [op |-> "archive", by |-> "force", arch |-> 0,
                                           cert |-> certDisk.cert.id])
                     ELSE certLog
       /\ certTasks' = SetCertTask("force", [certTasks["force"] EXCEPT
                           !.pc = IF certDisk.challenge = "dns-01" THEN "obtain"
                                  ELSE AfterRenew("force"),
                           !.arch = IF archives THEN Len(certLog) + 1 ELSE 0])
    /\ UNCHANGED <<certDisk, mcert>>

\* the goroutines that reach ObtainCertificate
Renewers == {"checker", "setup", "force"}

\* ObtainCertificate: the request fails, or it succeeds and saveCertificate
\* writes cert.pem
RenewObtain(t) ==
    /\ certTasks[t].pc = "obtain"
    /\ \/ /\ certTasks' = SetCertTask(t, [certTasks[t] EXCEPT !.pc = AfterRenew(t)])
          /\ UNCHANGED <<certDisk, certLog>>
       \/ /\ certDisk.mod < MaxWrites + 1
          /\ certLog' = Append(certLog, [op |-> "obtain", by |-> t,
                                         arch |-> certTasks[t].arch,
                                         cert |-> certDisk.cert.id])
          /\ certDisk' = [certDisk EXCEPT !.cert = [id |-> certDisk.mod + 1, life |-> "fresh"],
                                          !.mod = @ + 1]
          /\ certTasks' = SetCertTask(t, [certTasks[t] EXCEPT !.pc = "savekey"])
    /\ UNCHANGED mcert

\* saveCertificate writes key.pem
RenewSaveKey(t) ==
    /\ certTasks[t].pc = "savekey"
    /\ certDisk' = [certDisk EXCEPT !.key = certDisk.cert.id]
    /\ certTasks' = SetCertTask(t, [certTasks[t] EXCEPT !.pc = "reload"])
    /\ UNCHANGED <<mcert, certLog>>

\* doRenew and ForceRenew after the request: LoadX509KeyPair, then the swap of
\* m.cert under m.mu.Lock()
RenewReload(t) ==
    /\ certTasks[t].pc = "reload"
    /\ mcert' = IF LoadX509KeyPair(certDisk) THEN certDisk.cert.id ELSE mcert
    /\ certTasks' = SetCertTask(t, [certTasks[t] EXCEPT !.pc = AfterRenew(t)])
    /\ UNCHANGED <<certDisk, certLog>>

\* an operator replaces cert.pem by hand
ExtWriteCert ==
    /\ certDisk.mod < MaxWrites + 1
    /\ \E life \in {"fresh", "malformed"} :
         certDisk' = [certDisk EXCEPT !.cert = [id |-> certDisk.mod + 1, life |-> life],
                                      !.mod = @ + 1]
    /\ UNCHANGED <<mcert, certTasks, certLog>>

\* an operator replaces key.pem by hand: the key of the certificate on disk,
\* or the key of the certificate about to be written
ExtWriteKey ==
    /\ \E k \in {certDisk.cert.id, certDisk.mod + 1} :
         /\ k # 0
         /\ k # certDisk.key
         /\ k <= MaxWrites + 1
         /\ certDisk' = [certDisk EXCEPT !.key = k]
    /\ UNCHANGED <<mcert, certTasks, certLog>>

\* cert.pem is removed
ExtDeleteCert ==
    /\ certDisk.cert.life # "missing"
    /\ certDisk' = [certDisk EXCEPT !.cert = NoCertFile]
    /\ UNCHANGED <<mcert, certTasks, certLog>>

\* time.Now() moves towards and past NotAfter
TimePasses ==
    /\ certDisk.cert.life \in {"fresh", "window"}
    /\ certDisk' = [certDisk EXCEPT !.cert.life = IF @ = "fresh" THEN "window" ELSE "expired"]
    /\ UNCHANGED <<mcert, certTasks, certLog>>

CertOnly ==
    UNCHANGED routerVars /\ UNCHANGED keeperVars /\ UNCHANGED loaderVars
    /\ UNCHANGED <<host, xtr, reply, sbx>>

CertNext ==
    \/ WatcherStat /\ CertOnly
    \/ WatcherLoad /\ CertOnly
    \/ CheckerCheck /\ CertOnly
    \/ CheckerTick /\ CertOnly
    \/ (\E t \in {"checker", "setup"} : RenewStart(t)) /\ CertOnly
    \/ ForceRenew /\ CertOnly
    \/ (\E t \in Renewers : RenewObtain(t)) /\ CertOnly
    \/ (\E t \in Renewers : RenewSaveKey(t)) /\ CertOnly
    \/ (\E t \in Renewers : RenewReload(t)) /\ CertOnly
    \/ ExtWriteCert /\ CertOnly
    \/ ExtWriteKey /\ CertOnly
    \/ ExtDeleteCert /\ CertOnly
    \/ TimePasses /\ CertOnly

InitCert == RouterInit /\ KeeperOffInit /\ LoaderIdleInit /\ CertInit

SpecCert == InitCert /\ [][CertNext]_vars

-----------------------------------------------------------------------------
(* Request handlers and VerifySignature, one call at a time *)

\* a pot whose owner is named like a route family
OrgApi  == <<"a", "p", "i">>
NameA   == <<"a">>
PotApiA == [org |-> OrgApi, name |-> NameA]

\* the JSON bodies POSTed to the refresh endpoint: not JSON at all, or an
\* object whose org and name may be missing
RefreshBodies ==
    {[json |-> FALSE, org |-> <<>>, name |-> <<>>]}
    \cup [json : {TRUE}, org : {<<>>, OrgA}, name : {<<>>, NameB, <<"z">>}]

\* c.ShouldBindJSON with binding:"required" on org and name
ShouldBindJSON(body) == body.json /\ body.org # <<>> /\ body.name # <<>>

\* git.ReadPotYml: the type of the pot.yml at HEAD, "none" when it cannot be read
ReadPotYml(py, p) == IF p \in DOMAIN py THEN py[p] ELSE "none"

\* the gin handler RefreshHandler returns, from the body on
RefreshEndpoint(pr, sr, body, py, ry) ==
    IF ~ShouldBindJSON(body) THEN [pr |-> pr, sr |-> sr, status |-> 400]
    ELSE LET p == [org |-> body.org, name |-> body.name]
         IN RefreshHandler(pr, sr, p, ReadPotYml(py, p),
                           IF p \in DOMAIN ry THEN ry[p] ELSE NoRunYml)

\* the handler stored under the i-th prefix of a pot, applied to a request:
\* the path it hands on and the X-Forwarded-Prefix it sets
Rewrite(i, org, name, path) ==
    IF i = 1
    THEN [path |-> stripPrefixHandler(PrefixOf(Kinds[1], org, name), path),
          fwd |-> PrefixOf(Kinds[1], org, name)]
    ELSE [path |-> stripOrgNameHandler(org, name, path),
          fwd |-> Slash \o org \o Slash \o name]

\* the blobs of the HEAD tree of a/b, whose pot.yml has root w
HeadTree == {<<"w", "/", "x">>,
             <<"w", "/", "w", "e", "b", "/", "x">>,
             <<"p", "o", "t", ".", "y", "m", "l">>}

\* serveRepoFileHTTP: tree.File finds the blob or answers ErrFileNotFound
serveRepoFileHTTP(tree, filePathInRepo) == IF filePathInRepo \in tree THEN 200 ELSE 404

\* req.URL.Path as the static handler can be given it
StaticPaths == {<<"/", "x">>,
                <<"/", "w", "e", "b", "/", "x">>,
                <<"/", "y">>,
                <<"/", ".", ".", "/", "p", "o", "t", ".", "y", "m", "l">>,
                <<"/", "w", "e", "b", "/", ".", ".", "/", ".", ".", "/", "p", "o", "t", ".", "y", "m", "l">>,
                <<"/", ".", ".", "/", ".", ".", "/", "x">>}

\* config.RepoDir and the files under it that are not git objects
RepoDir == <<"/", "r">>
DiskFiles == {<<"/", "r", "/", "a", "/", "b", ".", "g", "i", "t", "/", "d", "a", "t", "a", "/", "x">>,
              <<"/", "r", "/", "a", "/", "b", ".", "g", "i", "t", "/", "d", "a", "t", "a", "2", "/", "x">>,
              <<"/", "r", "/", "a", "/", "b", ".", "g", "i", "t", "/", "d", "e", "s", "c", "r", "i", "p", "t", "i", "o", "n">>}

GitExt  == <<".", "g", "i", "t">>
DataDir == <<"d", "a", "t", "a">>
GitTag  == <<"g", "i", "t", "/">>
DatTag  == <<"d", "a", "t", "/">>
UriPath == <<"/", "u", "r", "i">>

\* c.Param("path") of requests to /uri/*path
ResourceParams == {<<"/", "d", "a", "t", "/", "a", "/", "b", "/", "x">>,
                   <<"/", "d", "a", "t", "/", "a", "/", "b", "/", "y">>,
                   <<"/", "d", "a", "t", "/", "a", "/", "b", "/", ".", ".", "/", "d", "e", "s", "c", "r", "i", "p", "t", "i", "o", "n">>,
                   <<"/", "d", "a", "t", "/", "a", "/", "b", "/", ".", ".", "/", "d", "a", "t", "a", "2", "/", "x">>,
                   <<"/", "d", "a", "t", "/", "a", "/", "b">>,
                   <<"/", "g", "i", "t", "/", "a", "/", "b", "/", "w", "/", "x">>,
                   <<"/", "g", "i", "t", "/", "a">>,
                   <<"/", "z", "z", "z">>}

\* strings.SplitN(s, "/", 3)
SplitN3(s) ==
    LET cut == {i \in 1..Len(s) : s[i] = "/"} IN
    IF cut = {} THEN <<s>>
    ELSE LET i1 == CHOOSE i \in cut : \A j \in cut : i <= j
             cut2 == {i \in cut : i > i1} IN
         IF cut2 = {} THEN <<SubSeq(s, 1, i1 - 1), SubSeq(s, i1 + 1, Len(s))>>
         ELSE LET i2 == CHOOSE i \in cut2 : \A j \in cut2 : i <= j
              IN <<SubSeq(s, 1, i1 - 1), SubSeq(s, i1 + 1, i2 - 1),
                   SubSeq(s, i2 + 1, Len(s))>>

\* net/http containsDotDot: some element of the path is ".."
containsDotDot(v) == \E i \in 1..Len(SplitPath(v)) : SplitPath(v)[i] = DotDot

\* http.ServeFile: 400 for a URL path with a ".." element, else the file or 404
ServeFile(urlPath, name, disk) ==
    IF containsDotDot(urlPath) THEN 400
    ELSE IF name \in disk THEN 200 ELSE 404

\* ResourceProcessor: the branch taken, the data root and the cleaned path of
\* the dat branch, the status answered
ResourceProcessor(param, tree, disk) ==
    LET path == TrimPrefix(param, Slash) IN
    IF HasPrefix(path, GitTag)
    THEN LET parts == SplitN3(TrimPrefix(path, GitTag)) IN
         [branch |-> "git", root |-> <<>>, file |-> <<>>,
          status |-> IF Len(parts) < 3 THEN 400
                     ELSE IF parts[1] = OrgA /\ parts[2] = NameB
                     THEN serveRepoFileHTTP(tree, parts[3]) ELSE 404]
    ELSE IF HasPrefix(path, DatTag)
    THEN LET parts == SplitN3(TrimPrefix(path, DatTag)) IN
         IF Len(parts) < 3
         THEN [branch |-> "dat", root |-> <<>>, file |-> <<>>, status |-> 400]
         ELSE LET dataRoot == JoinPath(JoinPath(JoinPath(RepoDir, parts[1]),
                                                parts[2] \o GitExt), DataDir)
                  cleanedPath == Clean(JoinPath(dataRoot, parts[3]))
              IN [branch |-> "dat", root |-> dataRoot, file |-> cleanedPath,
                  status |-> IF ~HasPrefix(cleanedPath, dataRoot) THEN 403
                             ELSE ServeFile(UriPath \o param, cleanedPath, disk)]
    ELSE [branch |-> "none", root |-> <<>>, file |-> <<>>, status |-> 400]

\* headers, contents and trusted keys VerifySignature is called with
VerifyData    == {b \in Bodies : Len(b) <= 1}
VerifyHeaders == [contentLen : {0}, publicKey : HeaderKeys,
                  signature : [key : HeaderKeys, data : VerifyData]]
TrustedKeys   == HeaderKeys \cup {<<>>}

\* a/b with any pot.yml, a run.yml with or without a port; a/bb not installed
HandlersKeeperInit ==
    /\ potYml \in {f \in [Pots -> {"none", "static", "exe", "docker"}] : f[PotBB] = "none"}
    /\ runYml \in {f \in [Pots -> {NoRunYml} \cup {rc \in RunConfigs : rc.target = "running"
                                                                     /\ rc.port <= 1}] :
                     f[PotBB] = NoRunYml}
    /\ runningInstances = EmptyMap
    /\ children = <<>>
    /\ mu = 0
    /\ firstPass = NoPass
    /\ tasks = [t \in {} |-> 0]

HandlersOnly ==
    /\ UNCHANGED <<rw, inflight, lastDispatch>>
    /\ UNCHANGED keeperVars
    /\ UNCHANGED <<users, pushLog, lastDeploy, health, boot>>
    /\ UNCHANGED <<certDisk, mcert, certTasks, certLog, host, xtr, sbx>>

\* POST /pot/potstack/router/refresh
RefreshCall ==
    /\ rw.pc = "idle" /\ inflight = 0
    /\ \E body \in RefreshBodies :
         LET r == RefreshEndpoint(pathRoutes, sandboxRoutes, body, potYml, runYml) IN
         /\ pathRoutes' = r.pr
         /\ sandboxRoutes' = r.sr
         /\ reply' = [op |-> "refresh", body |-> body, status |-> r.status]
    /\ HandlersOnly

\* a request reaches the handler registered under the i-th prefix of a pot
RewriteCall ==
    /\ \E i \in 1..4, p \in {PotB, PotApiA}, tail \in {<<>>, PathX} :
         LET r == Rewrite(i, p.org, p.name, PrefixOf(Kinds[i], p.org, p.name) \o tail) IN
         reply' = [op |-> "rewrite", kind |-> i, pot |-> p, tail |-> tail,
                   path |-> r.path, fwd |-> r.fwd]
    /\ UNCHANGED <<pathRoutes, sandboxRoutes>>
    /\ HandlersOnly

\* a request reaches the static handler of a/b
StaticCall ==
    /\ \E path \in StaticPaths :
         LET blob == NewStaticHandler(DocRoot, path) IN
         reply' = [op |-> "static", path |-> path, root |-> DocRoot, blob |-> blob,
                   status |-> serveRepoFileHTTP(HeadTree, blob)]
    /\ UNCHANGED <<pathRoutes, sandboxRoutes>>
    /\ HandlersOnly

\* GET /uri/*path
ResourceCall ==
    /\ \E param \in ResourceParams :
         LET r == ResourceProcessor(param, HeadTree, DiskFiles) IN
         reply' = [op |-> "resource", param |-> param, branch |-> r.branch,
                   root |-> r.root, file |-> r.file, status |-> r.status]
    /\ UNCHANGED <<pathRoutes, sandboxRoutes>>
    /\ HandlersOnly

\* header.VerifySignature(data, trustedPubKey)
VerifyCall ==
    /\ \E h \in VerifyHeaders, data \in VerifyData, pub \in TrustedKeys :
         reply' = [op |-> "verify", hdr |-> h, data |-> data, pub |-> pub,
                   err |-> VerifySignature(h, data, pub)]
    /\ UNCHANGED <<pathRoutes, sandboxRoutes>>
    /\ HandlersOnly

HandlersNext ==
    \/ RefreshCall
    \/ RewriteCall
    \/ StaticCall
    \/ ResourceCall
    \/ VerifyCall

InitHandlers == RouterInit /\ HandlersKeeperInit /\ LoaderIdleInit /\ HostIdleInit

SpecHandlers == InitHandlers /\ [][HandlersNext]_vars

-----------------------------------------------------------------------------
(* Archive extraction: extractZip, and Loader.unzip which is the same loop *)

\* entries of one archive
MaxEntries == 2

\* f.Name of the entries an archive can hold; a name that ends with / is a
\* directory entry
ZipNames == {<<"f">>,
             <<"d", "/">>,
             <<"d", "/", "f">>,
             <<".", ".", "/", "t", "b">>,
             <<"d", "/", ".", ".", "/", ".", ".", "/", "x">>,
             <<".">>,
             <<".", ".", "/", "t", "/", "g">>}

\* the directory extracted into: ppkPath + "_extracted", absolute or relative
ZipDests == {<<"/", "t">>,
             <<"t">>}

ZipFiles == UNION {[1..n -> ZipNames] : n \in 0..MaxEntries}

\* f.FileInfo().IsDir()
IsDir(name) == name # <<>> /\ name[Len(name)] = "/"

\* filepath.Dir of a clean path
Dir(path) ==
    LET cut == {i \in 1..Len(path) : path[i] = "/"} IN
    IF cut = {} THEN <<".">>
    ELSE LET n == CHOOSE i \in cut : \A j \in cut : j <= i
         IN IF n = 1 THEN Slash ELSE SubSeq(path, 1, n - 1)

\* a clean path and the directories above it
RECURSIVE Ancestors(_)
Ancestors(path) ==
    IF \A i \in 1..Len(path) : path[i] # "/" THEN {path}
    ELSE IF Dir(path) = path THEN {path}
    ELSE {path} \cup Ancestors(Dir(path))

\* os.MkdirAll(path): the directories it creates; those above dest exist
MkdirAll(dest, path) == Ancestors(path) \ (Ancestors(Clean(dest)) \ {Clean(dest)})

\* one iteration with the separator left out of the prefix test
extractEntryNoSeparator(dest, name, fails) ==
    LET path == JoinPath(dest, name) IN
    IF ~HasPrefix(path, Clean(dest))
    THEN [err |-> "illegal file path", made |-> {}]
    ELSE IF IsDir(name) THEN [err |-> "", made |-> MkdirAll(dest, path)]
    ELSE IF fails = "mkdir" THEN [err |-> fails, made |-> {}]
    ELSE IF fails = "open" THEN [err |-> fails, made |-> MkdirAll(dest, Dir(path))]
    ELSE [err |-> fails, made |-> MkdirAll(dest, Dir(path)) \cup {path}]

\* one iteration of the loop of extractZip: the error it returns ("" to go
\* on) and the paths it creates; fails names the call that fails, "" for none
extractEntry(dest, name, fails) ==
    LET path == JoinPath(dest, name) IN
    IF ~HasPrefix(path, Clean(dest) \o Slash)
    THEN [err |-> "illegal file path", made |-> {}]
    ELSE IF IsDir(name) THEN [err |-> "", made |-> MkdirAll(dest, path)]
    ELSE IF fails = "mkdir" THEN [err |-> fails, made |-> {}]
    ELSE IF fails = "open" THEN [err |-> fails, made |-> MkdirAll(dest, Dir(path))]
    ELSE [err |-> fails, made |-> MkdirAll(dest, Dir(path)) \cup {path}]

\* extractZip is called with an archive and a destination
ExtractInit ==
    /\ xtr \in [pc : {"loop"}, dest : ZipDests, files : ZipFiles, i : {0},
                written : {{}}, err : {""}]
    /\ certDisk = NoCertDisk
    /\ mcert = 0
    /\ certTasks = [t \in {} |-> 0]
    /\ certLog = <<>>
    /\ host = HostOff
    /\ reply = NoReply
    /\ sbx = SbxOff

ExtractOnly ==
    /\ UNCHANGED routerVars /\ UNCHANGED keeperVars
    /\ UNCHANGED <<users, pushLog, lastDeploy, health, boot>>
    /\ UNCHANGED <<certDisk, mcert, certTasks, certLog, host, reply, sbx>>

\* the body of the for loop, for the next entry
ExtractEntry ==
    /\ xtr.pc = "loop"
    /\ xtr.i < Len(xtr.files)
    /\ \E fails \in {"", "mkdir", "open", "copy"} :
         LET r == extractEntry(xtr.dest, xtr.files[xtr.i + 1], fails) IN
         xtr' = [xtr EXCEPT !.written = @ \cup r.made,
                            !.err = r.err,
                            !.i = IF r.err = "" THEN @ + 1 ELSE @,
                            !.pc = IF r.err = "" THEN "loop" ELSE "done"]
    /\ ExtractOnly

\* return nil after the last entry
ExtractReturn ==
    /\ xtr.pc = "loop"
    /\ xtr.i = Len(xtr.files)
    /\ xtr' = [xtr EXCEPT !.pc = "done"]
    /\ ExtractOnly

ExtractNext ==
    \/ ExtractEntry
    \/ ExtractReturn

InitExtract == RouterInit /\ KeeperOffInit /\ LoaderIdleInit /\ ExtractInit

SpecExtract == InitExtract /\ [][ExtractNext]_vars

-----------------------------------------------------------------------------
(* The host: three listeners, token authentication, shutdown *)

\* config.PotStackToken: not configured, or configured
Tokens == {<<>>, <<"T">>}

Listeners == {"business", "admin", "internal"}

\* the Authorization header of a request: absent, "token <value>", or HTTP
\* Basic credentials as Request.BasicAuth decodes them
AuthHeaders ==
    {[kind |-> "none", value |-> <<>>, user |-> <<>>, password |-> <<>>]}
    \cup [kind : {"token"}, value : {<<"T">>, <<"X">>}, user : {<<>>},
          password : {<<>>}]
    \cup [kind : {"basic"}, value : {<<>>}, user : {<<>>, <<"T">>, <<"X">>},
          password : {<<>>, <<"T">>}]

\* the first path segment of a request
RouteFamilies == {"admin", "api", "web", "pot", "cdn", "repo", "refresh", "health"}

\* TokenAuthMiddleware: TRUE when it calls c.Next(), FALSE when it aborts
\* with 401
TokenAuthMiddleware(token, h) ==
    \/ token = <<>>
    \/ h.kind = "token" /\ h.value = token
    \/ h.kind = "basic" /\ (h.user = token \/ h.password = token)

\* the handler chain gin runs for a request on a listener: the handler the
\* request is handed to, "404" when no route matches
runBusinessService(family, h) ==
    CASE family = "cdn" -> "cdn"
      [] family \in {"api", "web"} -> "router"
      [] family = "health" -> "health"
      [] OTHER -> "404"

runAdminService(family, h) ==
    CASE family = "health" -> "health"
      [] family = "admin" -> "router"
      [] OTHER -> "404"

runInternalService(family, h) ==
    CASE family = "refresh" -> "refresh"
      [] family = "pot" -> "router"
      [] family = "repo" -> "git"
      [] family = "health" -> "health"
      [] OTHER -> "404"

\* main has started the services and waits in its select
HostInit ==
    /\ host \in [pc : {"select"}, ctx : {"live"}, listening : {Listeners},
                 db : {"open", "none"}, token : Tokens]
    /\ reply = NoReply
    /\ sbx = SbxOff
    /\ certDisk = NoCertDisk
    /\ mcert = 0
    /\ certTasks = [t \in {} |-> 0]
    /\ certLog = <<>>
    /\ xtr = XtrOff

HostOnly ==
    /\ UNCHANGED routerVars /\ UNCHANGED keeperVars /\ UNCHANGED loaderVars
    /\ UNCHANGED <<certDisk, mcert, certTasks, certLog, xtr, sbx>>

\* a request is accepted by a listener that is open
Request ==
    /\ host.pc # "exit"
    /\ \E l \in host.listening, family \in RouteFamilies, h \in AuthHeaders :
         reply' = [op |-> "request", listener |-> l, family |-> family,
                   auth |-> h, ctx |-> host.ctx, db |-> host.db,
                   to |-> CASE l = "business" -> runBusinessService(family, h)
                            [] l = "admin" -> runAdminService(family, h)
                            [] l = "internal" -> runInternalService(family, h)]
    /\ UNCHANGED host
    /\ HostOnly

\* ListenAndServe of one listener returns an error: it is logged and the
\* service function returns; runService returns nil, so nothing is sent on
\* srvErrCh
ListenFail ==
    /\ host.pc # "exit"
    /\ \E l \in host.listening :
         host' = [host EXCEPT !.listening = @ \ {l}]
    /\ UNCHANGED reply
    /\ HostOnly

\* SIGINT or SIGTERM arrives on sigCh
Signal ==
    /\ host.pc = "select"
    /\ host' = [host EXCEPT !.pc = "cancel"]
    /\ UNCHANGED reply
    /\ HostOnly

\* cancel(): no service reads ctx
Cancel ==
    /\ host.pc = "cancel"
    /\ host' = [host EXCEPT !.ctx = "cancelled", !.pc = "dbclose"]
    /\ UNCHANGED reply
    /\ HostOnly

\* db.Close()
DbClose ==
    /\ host.pc = "dbclose"
    /\ host' = [host EXCEPT !.db = IF @ = "open" THEN "closed" ELSE @,
                            !.pc = "wait"]
    /\ UNCHANGED reply
    /\ HostOnly

\* the two seconds pass and main returns: the process ends and its sockets
\* with it
Exit ==
    /\ host.pc = "wait"
    /\ host' = [host EXCEPT !.pc = "exit", !.listening = {}]
    /\ UNCHANGED reply
    /\ HostOnly

HostNext ==
    \/ Request
    \/ ListenFail
    \/ Signal
    \/ Cancel
    \/ DbClose
    \/ Exit

InitHost == RouterInit /\ KeeperOffInit /\ LoaderIdleInit /\ HostInit

SpecHost == InitHost /\ [][HostNext]_vars

-----------------------------------------------------------------------------
(* A sandbox behind the reverse proxy that calls the refresh endpoint *)

\* the pot PotB runs and its four routes lead to the reverse proxy; PotBB
\* is registered as well
ProxyInit ==
    /\ potYml = [p \in Pots |-> "exe"]
    /\ runYml \in [Pots -> {rc \in RunConfigs : rc.target = "running" /\ rc.port > 0}]
    /\ LET q == RegisterExe(EmptyMap, EmptyMap, PotBB.org, PotBB.name, runYml[PotBB])
           r == RegisterExe(q.pr, q.sr, PotB.org, PotB.name, runYml[PotB]) IN
       /\ pathRoutes = r.pr
       /\ sandboxRoutes = r.sr
    /\ rw = RwIdle
    /\ inflight = 0
    /\ lastDispatch = NoDispatch
    /\ runningInstances = EmptyMap
    /\ children = <<>>
    /\ mu = 0
    /\ firstPass = NoPass
    /\ tasks = [t \in {} |-> 0]

ProxyOnly ==
    /\ UNCHANGED keeperVars /\ UNCHANGED loaderVars
    /\ UNCHANGED <<certDisk, mcert, certTasks, certLog, host, xtr, reply>>

\* ServeHTTP for a path of PotB: RLock, which a waiting writer holds back,
\* then bestHandler.ServeHTTP forwards the request to the sandbox
ProxyServe ==
    /\ sbx.req = "none"
    /\ sbx.refresh # "waiting"
    /\ \E i \in 1..4 :
         /\ ServeBegin(RequestOf(i, PotB), i, PotB)
         /\ sbx' = [sbx EXCEPT !.req =
                       IF ServeHTTP(pathRoutes, RequestOf(i, PotB)).status = 404
                       THEN "answered" ELSE "proxied"]
    /\ ProxyOnly

\* the sandbox POSTs /pot/potstack/router/refresh and waits for the answer;
\* RefreshHandler reaches r.mu.Lock() in RegisterExe
SandboxRefresh ==
    /\ sbx.refresh = "none"
    /\ sbx.req \in {"none", "proxied"}
    /\ sbx' = [sbx EXCEPT !.refresh = "waiting"]
    /\ UNCHANGED routerVars
    /\ ProxyOnly

\* r.mu.Lock() returns in RegisterExe
RefreshLock ==
    /\ sbx.refresh = "waiting"
    /\ RegisterExeBegin(PotB)
    /\ sbx' = [sbx EXCEPT !.refresh = "locked"]
    /\ ProxyOnly

RefreshInstall == RouterInstall /\ UNCHANGED sbx /\ ProxyOnly

RefreshFinish == RouterFinish /\ UNCHANGED sbx /\ ProxyOnly

\* the refresh endpoint answers the sandbox
RefreshReturn ==
    /\ sbx.refresh = "locked"
    /\ rw.pc = "idle"
    /\ sbx' = [sbx EXCEPT !.refresh = "none"]
    /\ UNCHANGED routerVars
    /\ ProxyOnly

\* the sandbox answers the proxied request; it does so after its own call
\* has returned
SandboxAnswer ==
    /\ sbx.req = "proxied"
    /\ sbx.refresh = "none"
    /\ sbx' = [sbx EXCEPT !.req = "answered"]
    /\ UNCHANGED routerVars
    /\ ProxyOnly

\* the handler returns, deferred RUnlock
ProxyReturn ==
    /\ sbx.req = "answered"
    /\ ServeEnd
    /\ sbx' = [sbx EXCEPT !.req = "none"]
    /\ ProxyOnly

\* the Keeper stops the pot: run.yml is rewritten
ProxyRunYml ==
    /\ \E rc \in RunConfigs : runYml' = [runYml EXCEPT ![PotB] = rc]
    /\ UNCHANGED <<potYml, runningInstances, children, mu, tasks, firstPass>>
    /\ UNCHANGED routerVars /\ UNCHANGED loaderVars /\ UNCHANGED hostVars

ProxyNext ==
    \/ ProxyServe
    \/ SandboxRefresh
    \/ RefreshLock
    \/ RefreshInstall
    \/ RefreshFinish
    \/ RefreshReturn
    \/ SandboxAnswer
    \/ ProxyReturn
    \/ ProxyRunYml

InitProxy == ProxyInit /\ LoaderIdleInit /\ HostIdleInit

SpecProxy == InitProxy /\ [][ProxyNext]_vars

-----------------------------------------------------------------------------
(* Claims about the Dynamic Router, checked under SpecRouter *)

PotOfHandler(h) == [org |-> h.org, name |-> h.name]

\* C5: every dispatching request sees, for each pot, either all four of the
\* pot's prefixes or none of them, whatever registrations and removals
\* (failing ones included) run around it.
C5_RoutesAllOrNothing ==
    \A p \in Pots :
        LET S == FourPrefixes(p.org, p.name) \cap lastDispatch.seen IN
        S = {} \/ S = FourPrefixes(p.org, p.name)

\* a request that saw the full set of pot b and nothing of pot bb, while a
\* registration is in progress behind it
C5_Witness ==
    /\ lastDispatch.kind # 0
    /\ FourPrefixes(OrgA, NameB) \subseteq lastDispatch.seen
    /\ FourPrefixes(OrgA, NameBB) \cap lastDispatch.seen = {}
    /\ rw.pc = "install" /\ rw.step = 2

\* C6: a request under /<kind>/<o>/<n>/ is handed to the handler of pot
\* (o, n) only, and is answered 404 when (o, n) has no routes.
C6_DispatchOnlyToOwnPot ==
    lastDispatch.kind # 0 =>
        IF FourPrefixes(lastDispatch.pot.org, lastDispatch.pot.name) \cap lastDispatch.seen = {}
        THEN lastDispatch.res.status = 404
        ELSE PotOfHandler(lastDispatch.res.handler) = lastDispatch.pot

\* C16: a request is answered 404 exactly when no registered prefix is a
\* prefix of its path; otherwise it is handed to the handler registered under
\* the longest such prefix; with /web/a/b and /web/a/bb both registered,
\* /web/a/b/x goes to pot b and /web/a/bb/x to pot bb.
C16_LongestPrefixDispatch ==
    LET d == lastDispatch
        M == {q \in d.seen : HasPrefix(d.path, q)}
        h == d.res.handler IN
    d.res.status # 0 =>
        /\ d.res.status = 404 <=> M = {}
        /\ M # {} => /\ d.res.prefix \in M
                      /\ \A q \in M : Len(q) <= Len(d.res.prefix)
                      /\ d.res.prefix \in FourPrefixes(h.org, h.name)
        /\ ({PrefixOf(WebKind, OrgA, NameB), PrefixOf(WebKind, OrgA, NameBB)} \subseteq d.seen
             /\ d.kind = 3)
           => PotOfHandler(h) = d.pot

\* /web/a/bb/x arrives while /web/a/b and /web/a/bb are both registered
C16_Witness ==
    /\ lastDispatch.path = RequestOf(3, PotBB)
    /\ {PrefixOf(WebKind, OrgA, NameB), PrefixOf(WebKind, OrgA, NameBB)}
          \subseteq lastDispatch.seen
    /\ lastDispatch.res.prefix = PrefixOf(WebKind, OrgA, NameBB)

\* C17: a request /web/<o>/<n>/x handed to the static handler of pot (o, n)
\* with document root <root> is served the blob <root>/x of the HEAD tree.
C17_StaticServesRootX ==
    LET d == lastDispatch
        h == d.res.handler IN
    (/\ d.kind = 3
     /\ d.res.status = 200
     /\ h.target.type = "static"
     /\ PotOfHandler(h) = d.pot)
    => ServedBlob(d.res, d.path) = h.target.root \o PathX

-----------------------------------------------------------------------------
(* Claims about the Loader, checked under SpecLoader *)

\* C3: when the store held, for an owner of the package, a pinned key other
\* than the hex form of the header key, deployPPK returned an error and
\* handed no pot of the package to pushToRepo.
C3_MismatchRejectedBeforePush ==
    \A o \in lastDeploy.pkg.owners :
        (/\ lastDeploy.before[o].publicKey # <<>>
         /\ lastDeploy.before[o].publicKey # Hex(lastDeploy.pkg.key))
        => (lastDeploy.result = "error" /\ lastDeploy.pushed = {})

\* a well-formed package of two owners: the first had no key and was pinned,
\* the second was pinned to another key
C3_Witness ==
    /\ lastDeploy.result = "error"
    /\ lastDeploy.pkg = [valid |-> TRUE, key |-> <<10>>, owners |-> OwnerSet]
    /\ lastDeploy.before[OrgA] = NewUser
    /\ lastDeploy.before[OrgC].publicKey = Hex(<<160>>)
    /\ lastDeploy.wrote = {OrgA}
    /\ users[OrgA].publicKey = Hex(<<10>>)
    /\ lastDeploy.pushed = {}

\* C4: a deployment calls SetUserPublicKey only for an owner whose stored key
\* was empty, and no step changes a stored key that is not empty.
C4_PinnedKeyWrittenOnlyWhenEmpty ==
    /\ [](\A o \in lastDeploy.wrote : lastDeploy.before[o].publicKey = <<>>)
    /\ [][\A o \in OwnerSet : users[o].publicKey # <<>> => users'[o] = users[o]]_vars

\* an accepted deployment that pinned one owner and left the matching key of
\* the other as it was
C4_Witness ==
    /\ lastDeploy.result = "ok"
    /\ lastDeploy.pkg.owners = OwnerSet
    /\ lastDeploy.before[OrgA].publicKey = <<>>
    /\ lastDeploy.before[OrgC].publicKey = Hex(lastDeploy.pkg.key)
    /\ lastDeploy.wrote = {OrgA}
    /\ users[OrgA].publicKey = Hex(lastDeploy.pkg.key)
    /\ users[OrgC] = lastDeploy.before[OrgC]

-----------------------------------------------------------------------------
(* Claims about the Sandbox Manager, checked under SpecKeeper *)

\* C1: at most one live child process exists for each pot.
C1_AtMostOneLiveChild ==
    \A p \in Pots :
        Cardinality({c \in DOMAIN children : children[c].pot = p /\ children[c].alive}) <= 1

\* C2: a waiter's Start spawns a child only while run.yml of the pot does not
\* say stopped.
C2_WaiterNeverRestartsStopped ==
    [][\A t \in Waiters :
          (tasks[t].pc = "start" /\ tasks'[t].pc = "start_refresh")
          => runYml[tasks[t].pot].target # "stopped"]_vars

\* C7: once the route refresh of a Stop that killed the pot's child is done,
\* with run.yml still saying stopped, a request to /web/<owner>/<name>/x is
\* answered 404.
C7_StoppedPotAnswers404 ==
    [][\A t \in TaskIds :
          (/\ tasks[t].pc = "stop_refresh"
           /\ tasks'[t].pc = "stop_relock"
           /\ tasks[t].child # 0
           /\ runYml[tasks[t].pot].target = "stopped")
          => ServeHTTP(pathRoutes', RequestOf(3, tasks[t].pot)).status = 404]_vars

\* C8: whenever the Router holds a reverse-proxy route for a pot, run.yml of
\* the pot says running and its port is the port of a live child of the pot.
C8_ExeRouteImpliesRunningLive ==
    \A p \in Pots :
        LET w == PrefixOf(WebKind, p.org, p.name) IN
        (w \in DOMAIN pathRoutes /\ pathRoutes[w].target.type = "proxy")
        => /\ runYml[p].target = "running"
           /\ \E c \in DOMAIN children :
                 /\ children[c].pot = p
                 /\ children[c].alive
                 /\ children[c].port = runYml[p].port

-----------------------------------------------------------------------------
(* Claims about restarts, checked under FairSpecKeeper *)

C11_TickRunsReconcile ==
    [][(tasks[KeeperId].pc = "loop" /\ tasks'[KeeperId].pc # "loop")
         => tasks'[KeeperId].op = "reconcile"]_vars

\* C12: whenever a task performs the route refresh of Start, of Stop or of
\* reconcile, that task does not hold the supervisor lock.
C12_NoLockDuringRefresh ==
    [][\A t \in TaskIds :
          (/\ tasks[t].pc \in {"start_refresh", "stop_refresh", "rec_refresh"}
           /\ tasks'[t].pc # tasks[t].pc)
          => mu # t]_vars

\* a waiter's restart has done its refresh while monitor held the lock, and a
\* Stop from outside stands before its own refresh
C12_Witness ==
    /\ tasks[1].pc = "start_relock"
    /\ mu = KeeperId
    /\ tasks[ExtId].pc = "stop_refresh"

-----------------------------------------------------------------------------
(* Claims about startup and deployment, checked under SpecBoot *)

PpkPcs == {"ppk_parse", "ppk_read", "ppk_verify", "ppk_extract", "ppk_deploy"}

\* C13: a package goes from header parse to the read of exactly
\* header.contentLen bytes, to the signature check, to extraction, in this
\* order; a package whose signature does not verify over the bytes read is
\* rejected at the check, nothing is extracted, and the store and the push
\* log are touched only by a package that has been extracted.
C13_VerifyBeforeExtract ==
    [][LET Rejected == /\ boot'.idx = boot.idx + 1
                       /\ boot'.lastErr # ""
                       /\ boot'.dir = "none"
                       /\ UNCHANGED <<users, pushLog, lastDeploy>>
       IN
       /\ (boot.pc = "ppk_parse" /\ boot' # boot)
          => \/ boot'.pc = "ppk_read" /\ boot'.idx = boot.idx /\ boot'.dir = "none"
             \/ Rejected
       /\ (boot.pc = "ppk_read" /\ boot' # boot)
          => \/ /\ boot'.pc = "ppk_verify" /\ boot'.dir = "none"
                /\ Len(boot'.buf) = boot.hdr.contentLen
                /\ boot'.buf = SubSeq(boot.buf, 1, boot.hdr.contentLen)
             \/ Rejected
       /\ (boot.pc = "ppk_verify" /\ boot' # boot)
          => IF Ed25519Verify(boot.hdr.publicKey, boot.buf, boot.hdr.signature)
             THEN boot'.pc = "ppk_extract" /\ boot'.dir = "none"
             ELSE Rejected
       /\ (boot'.dir = "extracted" /\ boot.dir # "extracted") => boot.pc = "ppk_extract"
       /\ (users' # users \/ pushLog' # pushLog \/ lastDeploy' # lastDeploy)
          => boot.pc = "ppk_deploy" /\ boot.dir = "extracted"]_vars

\* the first package was rejected at the signature check and the header of
\* the second one has been parsed
C13_Witness ==
    /\ boot.lastErr = "signature verification failed"
    /\ boot.idx = 2
    /\ boot.pc = "ppk_read"
    /\ lastDeploy = NoDeploy

\* C14: a package that fails, at whatever step, is followed by the next
\* package of the manifest, and Initialize returns only when every listed
\* package has been handed to deployPPK; a corrupt outer zip or a missing
\* manifest ends the deployment before any package is opened.
C14_PackageFailureIsLocal ==
    /\ [](boot.pc \in {"set_provider", "closed"} => boot.idx = boot.n + 1)
    /\ [](boot.pc = "fatal" => boot.idx = 0 /\ lastDeploy = NoDeploy /\ pushLog = {})
    /\ [][(boot.pc \in PpkPcs /\ boot'.idx # boot.idx)
            => /\ boot'.idx = boot.idx + 1
               /\ boot'.pc = IF boot.idx < boot.n THEN "ppk_parse" ELSE "set_provider"]_vars
    /\ [][(boot.pc = "unzip" /\ boot'.pc # "unzip")
            => \/ boot'.pc = "fatal"
               \/ boot'.idx = 1 /\ boot'.pc \in {"ppk_parse", "set_provider"}]_vars

\* the first package failed the pinning check and the second one is at its
\* signature check
C14_Witness ==
    /\ boot.lastErr = "public key mismatch"
    /\ boot.warnings = 1
    /\ boot.idx = 2
    /\ boot.pc = "ppk_verify"

\* C19: when a deployment has handed pots to pushToRepo, a SignalUpdate for
\* each of them has been started on the Keeper.
C19_PushSignalsKeeper ==
    [][(boot.pc = "ppk_deploy" /\ boot' # boot)
         => \A p \in lastDeploy'.pushed :
               \E t \in TaskIds : tasks'[t].op = "signal" /\ tasks'[t].pot = p]_vars

\* C20 as stated: the Loader is past its first wait, in Initialize or beyond,
\* only when /health has answered 200; the Keeper reconciles only when the
\* Loader has closed done.
C20_InitializeAfterHealth ==
    /\ boot.pc \notin {"off", "wait_async"} => boot.answered
    /\ tasks[KeeperId].pc = "reconcile" => boot.pc = "closed"

\* C20: the Loader creates the system user and the system repositories and
\* deploys packages only when /health has answered 200; before that answer
\* the store and the repositories are untouched; the Keeper reconciles only
\* when Initialize has returned nil and done is closed.
C20_InitStepsAfterHealth ==
    /\ boot.pc \in {"sys_user", "sys_repos", "unzip", "set_provider", "closed"} \cup PpkPcs
          => boot.answered
    /\ ~boot.answered => lastDeploy = NoDeploy /\ pushLog = {}
    /\ tasks[KeeperId].pc = "reconcile" => boot.pc = "closed" /\ boot.idx = boot.n + 1

\* the Keeper has begun its first reconcile after a deployment of two
\* packages
C20_Witness ==
    /\ tasks[KeeperId].pc = "reconcile"
    /\ boot.answered
    /\ boot.n = 2
    /\ pushLog # {}

-----------------------------------------------------------------------------
(* Claims about reconcile, checked under SpecReconcile *)

\* C15: when a second reconcile pass over the same pot list, pot.yml files
\* and environment has returned, run.yml of every pot, the running map and
\* the registered routes are what the first pass left.
C15_ReconcileIdempotent ==
    (tasks[KeeperId].pc = "loop" /\ firstPass.n = 1) => firstPass.after = <<PassState>>

\* both passes are done; the first one spawned the child of the exe pot and
\* registered its proxy
C15_Witness ==
    /\ tasks[KeeperId].pc = "loop"
    /\ firstPass.n = 1
    /\ Len(children) = 1
    /\ runYml[PotB] = StartedRunConfig(children[1].port, 1)
    /\ Running(PotB)
    /\ PrefixOf(WebKind, OrgA, NameB) \in DOMAIN pathRoutes
    /\ pathRoutes[PrefixOf(WebKind, OrgA, NameB)].target = ProxyTarget(children[1].port)

\* C18: while potstack/keeper is a pot of type exe, the built-in Keeper
\* spawns children for that pot only.
C18_OnlyKeeperPotSupervised ==
    [][potYml[KeeperPot] = "exe"
         => \A c \in DOMAIN children' \ DOMAIN children :
               children'[c].pot = KeeperPot]_vars

-----------------------------------------------------------------------------
(* Claims about the Certificate Manager, checked under SpecCert *)

\* C21: every certificate request the periodic renewal checker makes while a
\* cert.pem exists comes after an archive of the current files made by the
\* same renewal
C21_ArchiveBeforeRequest ==
    \A i \in 1..Len(certLog) :
        (certLog[i].op = "obtain" /\ certLog[i].by = "checker" /\ certLog[i].cert # 0)
            => /\ certLog[i].arch \in 1..(i - 1)
               /\ certLog[certLog[i].arch].op = "archive"

\* C22: once the watcher has seen the latest modification of cert.pem and is
\* back at rest, and no renewal is due or under way, a valid pair on disk is
\* the pair in memory
C22_WatcherInstallsValidPair ==
    (/\ certTasks["watcher"].pc = "tick"
     /\ certTasks["watcher"].lastMod = certDisk.mod
     /\ LoadX509KeyPair(certDisk)
     /\ ~needsRenewal(certDisk)
     /\ certTasks["checker"].pc \in {"check", "wait"}
     /\ certTasks["setup"].pc = "done")
        => mcert = certDisk.cert.id

-----------------------------------------------------------------------------
(* Claims about request handlers, checked under SpecHandlers *)

\* the four routes of pot p are registered and lead to target
RoutesRegistered(p, target) ==
    /\ \A i \in 1..4 :
         /\ PrefixOf(Kinds[i], p.org, p.name) \in DOMAIN pathRoutes
         /\ pathRoutes[PrefixOf(Kinds[i], p.org, p.name)].target = target
    /\ Key(p.org, p.name) \in DOMAIN sandboxRoutes

\* the answer of the last refresh call is the one its inputs call for, a
\* readable pot.yml of a type other than static and exe being answered other
RefreshAnswers(other) ==
    reply.op = "refresh" =>
        LET b == reply.body
            p == [org |-> b.org, name |-> b.name]
            t == ReadPotYml(potYml, p)
            rc == IF p \in DOMAIN runYml THEN runYml[p] ELSE NoRunYml
        IN IF ~(b.json /\ b.org # <<>> /\ b.name # <<>>) THEN reply.status = 400
           ELSE IF t = "none" THEN reply.status = 404
           ELSE IF t = "exe" /\ (rc = NoRunYml \/ rc.port = 0) THEN reply.status = 500
           ELSE IF t \notin {"static", "exe"} THEN reply.status = other
           ELSE /\ reply.status = 200
                /\ RoutesRegistered(p, IF t = "static" THEN StaticTarget(DocRoot)
                                       ELSE ProxyTarget(rc.port))

\* C23 as stated: 400 for a malformed body, 404 when pot.yml cannot be read,
\* 500 when registration fails, 200 in every other case
C23_RefreshStatusAsStated == RefreshAnswers(200)

\* C23 amended: 400 for a malformed body and for a pot.yml whose type is
\* neither static nor exe, 404 when pot.yml cannot be read, 500 when
\* registration fails, 200 in every other case, and then the four routes of
\* the pot are registered with its static or proxy handler
C23_RefreshStatus == RefreshAnswers(400)

C23_Witness ==
    /\ reply.op = "refresh"
    /\ reply.body = [json |-> TRUE, org |-> OrgA, name |-> NameB]
    /\ \/ potYml[PotB] = "docker" /\ reply.status = 400
       \/ potYml[PotB] = "exe" /\ reply.status = 200
          /\ RoutesRegistered(PotB, ProxyTarget(1))

\* path p lies in the subtree of root
Within(root, p) ==
    LET r == SplitPath(root)
        q == SplitPath(p)
    IN Len(r) <= Len(q) /\ SubSeq(q, 1, Len(r)) = r

\* C25: a request that resolves outside <repo>.git/data is answered 403 by
\* the data handler, and a request that resolves outside <root> is answered
\* 404 by the static tree handler
C25_OutsideRootRefused ==
    /\ (reply.op = "resource" /\ reply.branch = "dat" /\ reply.root # <<>>
        /\ ~Within(reply.root, reply.file)) => reply.status = 403
    /\ (reply.op = "static" /\ ~Within(reply.root, reply.blob)) => reply.status = 404

\* C28 as stated: VerifySignature accepts exactly when pub equals the header
\* key and the signature is valid over the content under that key
C28_AcceptsIffPinnedAndValid ==
    reply.op = "verify" =>
        (reply.err = "" <=>
            /\ reply.pub = reply.hdr.publicKey
            /\ reply.hdr.signature.key = reply.hdr.publicKey
            /\ reply.hdr.signature.data = reply.data)

\* C28 amended: VerifySignature accepts exactly when pub is empty or equals
\* the header key, and the signature is valid over the content under the
\* header key
C28_AcceptsIffValidAndPinnedWhenGiven ==
    reply.op = "verify" =>
        (reply.err = "" <=>
            /\ reply.pub = <<>> \/ reply.pub = reply.hdr.publicKey
            /\ reply.hdr.signature.key = reply.hdr.publicKey
            /\ reply.hdr.signature.data = reply.data)

C28_Witness ==
    /\ reply.op = "verify"
    /\ reply.pub = <<>>
    /\ reply.hdr.signature = [key |-> reply.hdr.publicKey, data |-> reply.data]
    /\ reply.err = ""

\* C29: /pot/o/n/x is handed on as /x with X-Forwarded-Prefix /pot/o/n, and
\* /api/o/n/x, /web/o/n/x, /admin/o/n/x as /api/x, /web/x, /admin/x with
\* X-Forwarded-Prefix /o/n
C29_RewrittenPath ==
    reply.op = "rewrite" =>
        LET on == Slash \o reply.pot.org \o Slash \o reply.pot.name IN
        IF reply.kind = 1
        THEN /\ reply.path = (IF reply.tail = <<>> THEN Slash ELSE reply.tail)
             /\ reply.fwd = PotKind \o on
        ELSE /\ reply.path = Kinds[reply.kind] \o reply.tail
             /\ reply.fwd = on

-----------------------------------------------------------------------------
(* Claims about archive extraction, checked under SpecExtract *)

\* the canonicalised destination of an entry lies outside the extraction root
Outside(dest, name) == ~Within(Clean(dest), JoinPath(dest, name))

\* C24: every path extraction creates lies in the extraction root, and when
\* the destination of an entry lies outside it, no entry at or after that one
\* is written and extraction ends with an error
C24_ExtractionStaysInRoot ==
    /\ \A p \in xtr.written : Within(Clean(xtr.dest), p)
    /\ \A j \in 1..Len(xtr.files) :
         Outside(xtr.dest, xtr.files[j]) =>
             /\ xtr.i < j
             /\ xtr.pc = "done" => xtr.err # ""

C24_Witness ==
    /\ xtr.pc = "done"
    /\ Len(xtr.files) = 2
    /\ xtr.i = 1
    /\ xtr.written # {}
    /\ Outside(xtr.dest, xtr.files[2])
    /\ xtr.err = "illegal file path"

-----------------------------------------------------------------------------
(* Claims about the host, checked under SpecHost *)

\* C26: with a token configured, a request for /admin/... on the Admin
\* listener reaches the Dynamic Router only if it carries the token, as
\* "Authorization: token T" or as Basic credentials whose user or password is
\* the token; any other request is answered 401 and is not dispatched
C26_AdminNeedsToken ==
    (/\ reply.op = "request"
     /\ reply.listener = "admin"
     /\ reply.family = "admin"
     /\ host.token # <<>>)
    => /\ reply.to = "router" => TokenAuthMiddleware(host.token, reply.auth)
       /\ ~TokenAuthMiddleware(host.token, reply.auth) => reply.to = "401"

\* C30: shutdown closes the listeners before it closes the database: once
\* the database is closed no listener accepts a request
C30_ListenersClosedBeforeDatabase ==
    host.db = "closed" => host.listening = {}

-----------------------------------------------------------------------------
(* Trust on first use, checked under SpecLoader *)

\* errors of the store and of docker, not of the package
EnvErrors == {"failed to create user", "failed to set public key",
              "failed to pull docker image"}

\* C27: deploying a validly signed package for owners with no pinned key (an
\* owner that does not exist is created) stores the hex form of the header's
\* public key as the pinned key of each of them, and the deployment succeeds;
\* owners already pinned to this key may be in the package as well
C27_FirstUsePinsHeaderKey ==
    (/\ lastDeploy.result # "none"
     /\ lastDeploy.pkg.valid
     /\ lastDeploy.err \notin EnvErrors
     /\ \A o \in lastDeploy.pkg.owners :
          lastDeploy.before[o].publicKey \in {<<>>, Hex(lastDeploy.pkg.key)})
    => /\ lastDeploy.result = "ok"
       /\ \A o \in lastDeploy.pkg.owners :
            lastDeploy.before[o].publicKey = <<>> =>
                /\ users[o].exists
                /\ users[o].publicKey = Hex(lastDeploy.pkg.key)

C27_Witness ==
    /\ lastDeploy.result = "ok"
    /\ lastDeploy.pkg = [valid |-> TRUE, key |-> <<160>>, owners |-> {OrgA}]
    /\ lastDeploy.before[OrgA] = NoUser
    /\ users[OrgA] = [exists |-> TRUE, publicKey |-> <<"a", "0">>]

-----------------------------------------------------------------------------
(* Claims about refresh during dispatch, checked under SpecProxy *)

\* C31: a route refresh issued while routed requests are in flight does not
\* wait for them: no refresh stands at the writer lock while a request is
\* with its handler
C31_RefreshDoesNotWaitForRequests ==
    sbx.refresh = "waiting" => inflight = 0

-----------------------------------------------------------------------------
(* Claims about the running map, checked under SpecKeeper *)

\* every live child is the one runningInstances holds for its pot
LiveChildrenTracked ==
    \A c \in DOMAIN children :
        children[c].alive =>
            /\ Running(children[c].pot)
            /\ runningInstances[KeyOf(children[c].pot)] = c

\* the delete of a waiter leaves the entry of another child where it is
WaiterDeletesOwnEntry ==
    \A t \in Waiters :
        (/\ tasks[t].pc = "wait"
         /\ tasks'[t].pc = "watch_load"
         /\ Running(tasks[t].pot)
         /\ runningInstances[KeyOf(tasks[t].pot)] # tasks[t].child)
        => runningInstances' = runningInstances

\* C32: every live child spawned by the Sandbox Manager is tracked in
\* runningInstances until it has exited or been stopped, and a waiter removes
\* only the entry of the child it waited on, never that of a newer instance
C32_LiveChildTracked ==
    /\ []LiveChildrenTracked
    /\ [][WaiterDeletesOwnEntry]_vars

-----------------------------------------------------------------------------
(* The decision table of reconcile, checked under SpecKeeper *)

\* reconcile goes on to the next pot of the list
NextPot(f, g) == g.pc = "reconcile" /\ g.idx = f.idx + 1

\* the step reconcile takes for the pot p it has reached: pot.yml and run.yml
DecidesOnFiles(f, g, p) ==
    CASE potYml[p] = "static" -> g.pc = "rec_refresh" /\ g.pot = p
      [] potYml[p] = "exe" /\ runYml[p] = NoRunYml ->
            \/ g.pc = "start" /\ g.pot = p       \* createRuntime, then Start
            \/ NextPot(f, g)                     \* createRuntime failed
      [] potYml[p] = "exe" /\ runYml[p] # NoRunYml ->
            g.pc = "rec_check" /\ g.pot = p /\ g.rc = runYml[p]
      [] OTHER -> NextPot(f, g)

\* the step reconcile takes once it has looked at runningInstances
DecidesOnRunning(f, g) ==
    LET running == KeyOf(f.pot) \in DOMAIN runningInstances IN
    CASE f.rc.target = "running" /\ ~running -> g.pc = "start" /\ g.pot = f.pot
      [] f.rc.target = "running" /\ running -> g.pc = "rec_refresh" /\ g.pot = f.pot
      [] f.rc.target = "stopped" /\ running -> g.pc = "stop" /\ g.pot = f.pot
      [] OTHER -> NextPot(f, g)

\* a route refresh only: no child, no run.yml and no map entry changes
RefreshOnly(f, g) ==
    /\ NextPot(f, g)
    /\ UNCHANGED <<children, runYml, runningInstances>>

\* C33: for each pot of the provider one reconcile pass takes the action of
\* the decision table: unreadable pot.yml, skip; static, route refresh only;
\* exe without run.yml, createRuntime then Start; exe, target running, not
\* running, Start; running, route refresh only; target stopped and running,
\* Stop; target stopped and not running, nothing
C33_ReconcileFollowsTable ==
    [][LET f == tasks[KeeperId]
           g == tasks'[KeeperId] IN
       (g # f /\ f.op = "reconcile") =>
           CASE f.pc = "reconcile" /\ f.idx <= Len(PotList) ->
                    DecidesOnFiles(f, g, PotList[f.idx])
             [] f.pc = "rec_check" -> DecidesOnRunning(f, g)
             [] f.pc = "rec_refresh" -> RefreshOnly(f, g)
             [] OTHER -> TRUE]_vars

\* reconcile has found a pot stopped in run.yml and in the running map, and
\* calls Stop
C33_Witness ==
    /\ tasks[KeeperId].op = "reconcile"
    /\ tasks[KeeperId].pc = "stop"
    /\ KeyOf(tasks[KeeperId].pot) \in DOMAIN runningInstances

-----------------------------------------------------------------------------
(* SignalUpdate, checked under SpecKeeper *)

\* the places of a SignalUpdate call, in the order the claim gives them
SignalOrder(f, g) ==
    CASE f.pc = "create" -> g.pc \in {"stop", "create_failed"}
      [] f.pc = "create_failed" -> g = Idle
      [] f.pc = "stop" -> g.pc = "stop_refresh"
      [] f.pc = "stop_refresh" -> g.pc = "stop_relock"
      [] f.pc = "stop_relock" -> g.pc = "start"
      [] f.pc = "start" -> g.pc = "start_refresh" \/ g = Idle
      [] f.pc = "start_refresh" -> g.pc = "start_relock"
      [] f.pc = "start_relock" -> g = Idle
      [] OTHER -> FALSE

\* C34: SignalUpdate performs createRuntime, then Stop, then Start, in that
\* order; if createRuntime fails, neither Stop nor Start is performed and the
\* running instance and run.yml are left as they were
C34_SignalUpdateOrder ==
    [][LET f == tasks[ExtId]
           g == tasks'[ExtId] IN
       (g # f /\ f.op = "signal") =>
           /\ SignalOrder(f, g)
           /\ g # Idle => g.op = "signal" /\ g.pot = f.pot
           /\ f.pc \in {"create", "create_failed"} =>
                 UNCHANGED <<runYml, runningInstances, children>>]_vars

\* a SignalUpdate whose createRuntime succeeded has stopped child 1 and its
\* Start has spawned child 2
C34_Witness ==
    /\ tasks[ExtId].op = "signal"
    /\ tasks[ExtId].pc = "start_refresh"
    /\ Len(children) = 2
    /\ ~children[1].alive
    /\ children[2].alive
    /\ KeyOf(tasks[ExtId].pot) \in DOMAIN runningInstances
    /\ runningInstances[KeyOf(tasks[ExtId].pot)] = 2


-----------------------------------------------------------------------------
(* A registration that fails, checked under SpecProxy *)

\* the refresh of the sandbox takes the writer lock, for a run.yml that
\* RegisterExe rejects
FailedRegisterExe ==
    /\ sbx.refresh = "waiting"
    /\ sbx'.refresh = "locked"
    /\ (runYml[PotB] = NoRunYml \/ runYml[PotB].port = 0)

-----------------------------------------------------------------------------
(* A Start that returns an error, checked under SpecKeeper *)

\* task t leaves Start by one of its error returns
StartFails(t) ==
    /\ tasks[t].pc = "start"
    /\ tasks'[t].pc \notin {"start", "start_refresh"}

\* C36: if Start returns an error, no child process is left running for the
\* pot, run.yml and runningInstances are unchanged, no waiter is started and
\* no route refresh is issued
C36_FailedStartChangesNothing ==
    [][\A t \in TaskIds :
         StartFails(t) =>
           /\ \A c \in DOMAIN children' :
                children'[c].alive => c \in DOMAIN children /\ children[c].alive
           /\ UNCHANGED <<runYml, runningInstances>>
           /\ \A u \in TaskIds \ {t} : tasks'[u] = tasks[u]
           /\ UNCHANGED <<pathRoutes, sandboxRoutes>>]_vars

\* a Start has failed after jobCmd.Start had started a process: the process
\* is dead and in no map, and nothing waits on it
C36_Witness ==
    /\ Len(children) = 1
    /\ ~children[1].alive
    /\ runningInstances = EmptyMap
    /\ tasks[1].pc = "idle"
    /\ tasks[ExtId] = Idle
    /\ runYml[PotB] = NoRunYml

-----------------------------------------------------------------------------
(* A package rejected for a key mismatch, checked under SpecLoader *)

\* C37: a package rejected for key mismatch on one of its owners leaves the
\* trust store and the owner set as they were before the deployment: no key
\* pinned and no owner created for another owner of the package persists
C37_RejectedPackageLeavesStore ==
    [][(lastDeploy' # lastDeploy /\ lastDeploy'.err = "public key mismatch")
         => users' = users]_vars


-----------------------------------------------------------------------------
(* Concurrent renewals and the served certificate, checked under SpecCert *)

\* a goroutine is between the start of ObtainCertificate and the write of
\* key.pem
Renewing(t) == certTasks[t].pc \in {"obtain", "savekey"}

\* C38: at most one renewal (the certificate request and the writes of
\* cert.pem and key.pem) is in progress at any time, whichever of the start-up
\* renewal, the renewal checker and ForceRenew began it
C38_OneRenewalAtATime ==
    Cardinality({t \in Renewers : Renewing(t)}) <= 1

\* C39: m.cert changes only in the swap that follows a LoadX509KeyPair of the
\* files on disk that succeeded, and it becomes the pair that was loaded; a
\* request that failed or a load that failed leaves m.cert as it was
C39_SwapOnlyAfterLoad ==
    [][mcert' # mcert
         => /\ certDisk.cert.life \in {"fresh", "window", "expired"}
            /\ certDisk.key = certDisk.cert.id
            /\ mcert' = certDisk.cert.id
            /\ \E t \in CertTaskIds :
                 /\ certTasks[t].pc \in {"load", "reload"}
                 /\ certTasks'[t].pc # certTasks[t].pc]_vars

\* ForceRenew has obtained certificate 2, written both files and swapped
\* m.cert to it, after an earlier request of the checker had failed
C39_Witness ==
    /\ mcert = 2
    /\ certDisk.cert.id = 2
    /\ certDisk.key = 2
    /\ certTasks["force"].pc = "done"
    /\ certTasks["checker"].pc = "wait"
    /\ \E i \in 1..Len(certLog) : certLog[i].op = "obtain" /\ certLog[i].by = "force"
    /\ \A i \in 1..Len(certLog) : certLog[i].by # "checker" \/ certLog[i].op # "obtain"

=============================================================================
